---- MODULE Spec2Model ----
(***************************************************************************)
(* Verification model of the statsd metric pipeline:                       *)
(*   - CountMetricProducer  (bucket rotation, counting, guardrail, dump)   *)
(*   - MetricProducer       (common event pipeline, activations, snapshot) *)
(*   - StatsPullerManager   (receivers, alarm driven pull rotation)        *)
(*                                                                         *)
(* Time is measured in units of 5 seconds (one unit = 5e9 ns), so that a   *)
(* one minute bucket is 12 units and every instant named by the design     *)
(* scenarios (10 s, 30 s, 65 s, 120 s, ...) is a whole number of units.    *)
(***************************************************************************)
EXTENDS Integers, Sequences, FiniteSets, TLC

(***************************************************************************)
(* Bounds of the exploration.                                              *)
(***************************************************************************)
MaxCount == 2          \* events counted in one bucket, over the keys of Keys
MaxPastBuckets == 2    \* past buckets stored for the keys of Keys
MaxLimitHits == 2      \* events dropped by the dimension guardrail
BurstSize == 799       \* distinct fresh keys carried by one burst of events

(***************************************************************************)
(* Program constants (time in units of 5 s).                               *)
(***************************************************************************)
BucketSizeNs == 12                      \* metric.bucket() = ONE_MINUTE
kDimensionKeySizeSoftLimit == 500
kDimensionKeySizeHardLimitMin == 800
kDimensionKeySizeHardLimitMax == 3000

Keys == {"x", "y"}                      \* dimension keys followed one by one
ConditionStates == {"kUnknown", "kFalse", "kTrue"}
NoThreshold == [op |-> "none", v |-> 0]

\* C++ integer division truncates toward zero.
CDiv(a, b) == IF a >= 0 THEN a \div b ELSE -((-a) \div b)

\* unordered_map helpers: a map is a function whose DOMAIN is its key set.
EmptyMap == [k \in {} |-> 0]
Has(m, k) == k \in DOMAIN m
Put(m, k, v) == [j \in (DOMAIN m) \cup {k} |-> IF j = k THEN v ELSE m[j]]
Get0(m, k) == IF Has(m, k) THEN m[k] ELSE 0
Get0Map(m, k) == IF Has(m, k) THEN m[k] ELSE [j \in {} |-> 0]

VARIABLES
    \* ---- configuration of the producer (fixed by the constructor)
    mTimeBaseNs, mConditionTrackerIndex, mConditionSliced, mUploadThreshold,
    mAnomalyTrackers, mDimensionHardLimit, mSplitBucketForAppUpgrade, mShardCount,
    mEventDeactivationMap,
    \* ---- MetricProducer / CountMetricProducer fields
    mCurrentBucketStartTimeNs, mCurrentBucketNum, mCondition, mConditionTimer,
    mCurrentSlicedCounter, mCurrentFullCounters, mPastBuckets,
    mBulkCounter, mBulkPastBuckets,
    mDimensionGuardrailHit, mHasHitGuardrail,
    mIsActive, mEventActivationMap,
    \* ---- calls made on collaborators
    addPastBucketCalls, lastAnomalyCheck, hardLimitReachedCount, activeStateCalls,
    \* ---- output of the last dump, snapshot persisted by the last save
    report, snapshot,
    \* ---- StatsPullerManager
    mReceivers, mNextPullTimeNs, kAllPullAtomInfo, mPullUidProviders,
    mStatsCompanionService, receiverState, alarmCalls, lastAlarm, crashed,
    \* ---- threads: the step each is at and the mutexes each holds, oldest first
    threadPc, heldLocks,
    \* ---- StatsdStats: the bounded histories of one config and of the process
    stats,
    \* ---- observers of the run (history needed to state the properties)
    clock, lastOp, passed, run, lastUpdate

cfgVars == <<mTimeBaseNs, mConditionTrackerIndex, mConditionSliced, mUploadThreshold,
             mAnomalyTrackers, mDimensionHardLimit, mSplitBucketForAppUpgrade, mShardCount,
             mEventDeactivationMap>>
prodVars == <<mCurrentBucketStartTimeNs, mCurrentBucketNum, mCondition, mConditionTimer,
              mCurrentSlicedCounter, mCurrentFullCounters, mPastBuckets,
              mBulkCounter, mBulkPastBuckets,
              mDimensionGuardrailHit, mHasHitGuardrail, mIsActive, mEventActivationMap,
              addPastBucketCalls, lastAnomalyCheck, hardLimitReachedCount, activeStateCalls>>
ioVars == <<report, snapshot>>
pullVars == <<mReceivers, mNextPullTimeNs, kAllPullAtomInfo, mPullUidProviders,
              mStatsCompanionService, receiverState, alarmCalls, lastAlarm, crashed,
              threadPc, heldLocks, stats>>
obsVars == <<clock, lastOp, passed, run, lastUpdate>>
vars == <<cfgVars, prodVars, ioVars, pullVars, obsVars>>

NoAnomalyCheck == [eventTimeNs |-> 0, bucketNum |-> 0, key |-> "none", countWholeBucket |-> 0]

(***************************************************************************)
(* The producer as one record, so that a method is an operator from the    *)
(* state before the call to the state after it.                            *)
(***************************************************************************)
P == [mTimeBaseNs |-> mTimeBaseNs,
      mConditionTrackerIndex |-> mConditionTrackerIndex,
      mConditionSliced |-> mConditionSliced,
      mUploadThreshold |-> mUploadThreshold,
      mEventDeactivationMap |-> mEventDeactivationMap,
      mAnomalyTrackers |-> mAnomalyTrackers,
      mDimensionHardLimit |-> mDimensionHardLimit,
      mSplitBucketForAppUpgrade |-> mSplitBucketForAppUpgrade,
      mShardCount |-> mShardCount,
      mCurrentBucketStartTimeNs |-> mCurrentBucketStartTimeNs,
      mCurrentBucketNum |-> mCurrentBucketNum,
      mCondition |-> mCondition,
      mConditionTimer |-> mConditionTimer,
      mCurrentSlicedCounter |-> mCurrentSlicedCounter,
      mCurrentFullCounters |-> mCurrentFullCounters,
      mPastBuckets |-> mPastBuckets,
      mBulkCounter |-> mBulkCounter,
      mBulkPastBuckets |-> mBulkPastBuckets,
      mDimensionGuardrailHit |-> mDimensionGuardrailHit,
      mHasHitGuardrail |-> mHasHitGuardrail,
      mIsActive |-> mIsActive,
      mEventActivationMap |-> mEventActivationMap,
      addPastBucketCalls |-> addPastBucketCalls,
      hardLimitReachedCount |-> hardLimitReachedCount,
      lastAnomalyCheck |-> NoAnomalyCheck,   \* the anomaly check made by this call
      activeStateCalls |-> <<>>,             \* the active-state callbacks of this call
      bucketOpened |-> FALSE]         \* set when a call opens a new bucket

Commit(q) ==
    /\ mCurrentBucketStartTimeNs' = q.mCurrentBucketStartTimeNs
    /\ mCurrentBucketNum' = q.mCurrentBucketNum
    /\ mCondition' = q.mCondition
    /\ mConditionTimer' = q.mConditionTimer
    /\ mCurrentSlicedCounter' = q.mCurrentSlicedCounter
    /\ mCurrentFullCounters' = q.mCurrentFullCounters
    /\ mPastBuckets' = q.mPastBuckets
    /\ mBulkCounter' = q.mBulkCounter
    /\ mBulkPastBuckets' = q.mBulkPastBuckets
    /\ mDimensionGuardrailHit' = q.mDimensionGuardrailHit
    /\ mHasHitGuardrail' = q.mHasHitGuardrail
    /\ mIsActive' = q.mIsActive
    /\ mEventActivationMap' = q.mEventActivationMap
    /\ addPastBucketCalls' = q.addPastBucketCalls
    /\ lastAnomalyCheck' = q.lastAnomalyCheck
    /\ hardLimitReachedCount' = q.hardLimitReachedCount
    /\ activeStateCalls' = q.activeStateCalls
    /\ UNCHANGED cfgVars

(***************************************************************************)
(* ConditionTimer: time the (global) condition has been true in the        *)
(* current bucket.                                                         *)
(***************************************************************************)
ConditionTimerInit(initCondition, bucketStartNs) ==
    [mCondition |-> initCondition, mTimerNs |-> 0,
     mLastConditionChangeTimestampNs |-> IF initCondition THEN bucketStartNs ELSE 0]

TimerOnConditionChanged(t, newCondition, timestampNs) ==
    IF newCondition = t.mCondition THEN t
    ELSE [mCondition |-> newCondition,
          mTimerNs |-> IF newCondition = FALSE
                         THEN t.mTimerNs + (timestampNs - t.mLastConditionChangeTimestampNs)
                         ELSE t.mTimerNs,
          mLastConditionChangeTimestampNs |-> timestampNs]

\* Returns [timer |-> the timer afterwards, trueNs |-> condition-true time of the closed bucket].
TimerNewBucketStart(t, eventTimeNs, nextBucketStartNs) ==
    LET closed == IF t.mCondition
                    THEN t.mTimerNs + (nextBucketStartNs - t.mLastConditionChangeTimestampNs)
                    ELSE IF t.mLastConditionChangeTimestampNs > nextBucketStartNs
                           THEN t.mTimerNs - (t.mLastConditionChangeTimestampNs - nextBucketStartNs)
                           ELSE t.mTimerNs
        carried == IF ~t.mCondition /\ t.mLastConditionChangeTimestampNs > nextBucketStartNs
                     THEN t.mLastConditionChangeTimestampNs - nextBucketStartNs
                     ELSE 0
    IN [timer |-> [mCondition |-> t.mCondition, mTimerNs |-> carried,
                   mLastConditionChangeTimestampNs |->
                       IF t.mCondition THEN nextBucketStartNs
                       ELSE t.mLastConditionChangeTimestampNs],
        trueNs |-> closed]

(***************************************************************************)
(* StatsdStats::clampDimensionKeySizeLimit                                 *)
(***************************************************************************)
\* The requested limit is capped but never raised.
clampDimensionKeySizeLimit_noFloor(limit) ==
    IF limit > kDimensionKeySizeHardLimitMax THEN kDimensionKeySizeHardLimitMax
    ELSE limit

clampDimensionKeySizeLimit(limit) ==
    IF limit < kDimensionKeySizeHardLimitMin THEN kDimensionKeySizeHardLimitMin
    ELSE IF limit > kDimensionKeySizeHardLimitMax THEN kDimensionKeySizeHardLimitMax
    ELSE limit

(***************************************************************************)
(* Bucket clock                                                            *)
(***************************************************************************)
getCurrentBucketEndTimeNs(p) == p.mTimeBaseNs + (p.mCurrentBucketNum + 1) * BucketSizeNs

getBucketNumFromEndTimeNs(p, endNs) == CDiv(endNs - p.mTimeBaseNs, BucketSizeNs) - 1

countPassesThreshold(p, count) ==
    CASE p.mUploadThreshold.op = "none" -> TRUE
      [] p.mUploadThreshold.op = "lt"  -> count < p.mUploadThreshold.v
      [] p.mUploadThreshold.op = "gt"  -> count > p.mUploadThreshold.v
      [] p.mUploadThreshold.op = "lte" -> count <= p.mUploadThreshold.v
      [] p.mUploadThreshold.op = "gte" -> count >= p.mUploadThreshold.v
      [] OTHER -> FALSE

\* Number of keys held by the current counter map.
CounterSize(p) == Cardinality(DOMAIN p.mCurrentSlicedCounter) + p.mBulkCounter.n
FullCounterSize(p) == Cardinality(DOMAIN p.mCurrentFullCounters)
(***************************************************************************)
(* CountMetricProducer::flushCurrentBucketLocked                           *)
(***************************************************************************)
\* counters of the closed (partial) bucket added to the carried full counters
Accumulate(full, counter) ==
    [k \in (DOMAIN full) \cup (DOMAIN counter) |-> Get0(full, k) + Get0(counter, k)]

\* The start time of the new bucket is not recorded.
flushCurrentBucketLocked_staleStart(p, eventTimeNs, nextBucketStartTimeNs) ==
    LET fullBucketEndTimeNs == getCurrentBucketEndTimeNs(p)
        rolled == TimerNewBucketStart(p.mConditionTimer, eventTimeNs, nextBucketStartTimeNs)
        info(count) ==
            [mBucketStartNs |-> p.mCurrentBucketStartTimeNs,
             mBucketEndNs |-> IF eventTimeNs < fullBucketEndTimeNs
                                THEN eventTimeNs ELSE fullBucketEndTimeNs,
             mCount |-> count,
             mConditionTrueNs |-> rolled.trueNs]
        counter == p.mCurrentSlicedCounter
        uploaded == {k \in DOMAIN counter : countPassesThreshold(p, counter[k])}
        past == [k \in (DOMAIN p.mPastBuckets) \cup uploaded |->
                    IF k \in uploaded
                      THEN Append(IF Has(p.mPastBuckets, k) THEN p.mPastBuckets[k] ELSE <<>>,
                                  info(counter[k]))
                      ELSE p.mPastBuckets[k]]
        bulkPast == IF p.mBulkCounter.n > 0 /\ countPassesThreshold(p, p.mBulkCounter.c)
                      THEN p.mBulkPastBuckets + p.mBulkCounter.n
                      ELSE p.mBulkPastBuckets
        hasTrackers == p.mAnomalyTrackers > 0
        fullBucketDone == eventTimeNs > fullBucketEndTimeNs
        hadPartial == FullCounterSize(p) > 0
        summed == Accumulate(p.mCurrentFullCounters, counter)
    IN [p EXCEPT
          !.mConditionTimer = rolled.timer,
          !.mPastBuckets = past,
          !.mBulkPastBuckets = bulkPast,
          !.mCurrentFullCounters =
              IF ~hasTrackers THEN @
              ELSE IF fullBucketDone THEN (IF hadPartial THEN EmptyMap ELSE @)
              ELSE summed,
          !.addPastBucketCalls =
              IF hasTrackers /\ fullBucketDone
                THEN Append(@, p.mCurrentBucketNum)
                ELSE @,
          !.mCurrentSlicedCounter = EmptyMap,
          !.mBulkCounter = [n |-> 0, c |-> 0],
          !.mHasHitGuardrail = FALSE,
          !.bucketOpened = TRUE]

flushCurrentBucketLocked(p, eventTimeNs, nextBucketStartTimeNs) ==
    LET fullBucketEndTimeNs == getCurrentBucketEndTimeNs(p)
        rolled == TimerNewBucketStart(p.mConditionTimer, eventTimeNs, nextBucketStartTimeNs)
        info(count) ==
            [mBucketStartNs |-> p.mCurrentBucketStartTimeNs,
             mBucketEndNs |-> IF eventTimeNs < fullBucketEndTimeNs
                                THEN eventTimeNs ELSE fullBucketEndTimeNs,
             mCount |-> count,
             mConditionTrueNs |-> rolled.trueNs]
        counter == p.mCurrentSlicedCounter
        uploaded == {k \in DOMAIN counter : countPassesThreshold(p, counter[k])}
        past == [k \in (DOMAIN p.mPastBuckets) \cup uploaded |->
                    IF k \in uploaded
                      THEN Append(IF Has(p.mPastBuckets, k) THEN p.mPastBuckets[k] ELSE <<>>,
                                  info(counter[k]))
                      ELSE p.mPastBuckets[k]]
        bulkPast == IF p.mBulkCounter.n > 0 /\ countPassesThreshold(p, p.mBulkCounter.c)
                      THEN p.mBulkPastBuckets + p.mBulkCounter.n
                      ELSE p.mBulkPastBuckets
        hasTrackers == p.mAnomalyTrackers > 0
        fullBucketDone == eventTimeNs > fullBucketEndTimeNs
        hadPartial == FullCounterSize(p) > 0
        summed == Accumulate(p.mCurrentFullCounters, counter)
    IN [p EXCEPT
          !.mConditionTimer = rolled.timer,
          !.mPastBuckets = past,
          !.mBulkPastBuckets = bulkPast,
          !.mCurrentFullCounters =
              IF ~hasTrackers THEN @
              ELSE IF fullBucketDone THEN (IF hadPartial THEN EmptyMap ELSE @)
              ELSE summed,
          !.addPastBucketCalls =
              IF hasTrackers /\ fullBucketDone
                THEN Append(@, p.mCurrentBucketNum)
                ELSE @,
          !.mCurrentSlicedCounter = EmptyMap,
          !.mBulkCounter = [n |-> 0, c |-> 0],
          !.mCurrentBucketStartTimeNs = nextBucketStartTimeNs,
          !.mHasHitGuardrail = FALSE,
          !.bucketOpened = TRUE]

(***************************************************************************)
(* CountMetricProducer::flushIfNeededLocked                                *)
(***************************************************************************)
\* The bucket number is moved back by the number of buckets to go forward.
flushIfNeededLocked_backwards(p, eventTimeNs) ==
    LET currentBucketEndTimeNs == getCurrentBucketEndTimeNs(p)
        numBucketsForward == 1 + CDiv(eventTimeNs - currentBucketEndTimeNs, BucketSizeNs)
        nextBucketNs == currentBucketEndTimeNs + (numBucketsForward - 1) * BucketSizeNs
        flushed == flushCurrentBucketLocked(p, eventTimeNs, nextBucketNs)
    IN IF eventTimeNs < currentBucketEndTimeNs THEN p
       ELSE [flushed EXCEPT !.mCurrentBucketNum = @ - numBucketsForward]

\* The rotation always moves on by one bucket, however late the event is.
flushIfNeededLocked_oneBucket(p, eventTimeNs) ==
    LET currentBucketEndTimeNs == getCurrentBucketEndTimeNs(p)
        flushed == flushCurrentBucketLocked(p, eventTimeNs, currentBucketEndTimeNs)
    IN IF eventTimeNs < currentBucketEndTimeNs THEN p
       ELSE [flushed EXCEPT !.mCurrentBucketNum = @ + 1]

flushIfNeededLocked(p, eventTimeNs) ==
    LET currentBucketEndTimeNs == getCurrentBucketEndTimeNs(p)
        numBucketsForward == 1 + CDiv(eventTimeNs - currentBucketEndTimeNs, BucketSizeNs)
        nextBucketNs == currentBucketEndTimeNs + (numBucketsForward - 1) * BucketSizeNs
        flushed == flushCurrentBucketLocked(p, eventTimeNs, nextBucketNs)
    IN IF eventTimeNs < currentBucketEndTimeNs THEN p
       ELSE [flushed EXCEPT !.mCurrentBucketNum = @ + numBucketsForward]

\* MetricProducer::flushLocked: rotate if due, then close the running bucket at eventTime.
flushLocked(p, eventTimeNs) ==
    flushCurrentBucketLocked(flushIfNeededLocked(p, eventTimeNs), eventTimeNs, eventTimeNs)

(***************************************************************************)
(* CountMetricProducer::hitGuardRailLocked                                 *)
(***************************************************************************)
\* A key is rejected only when the map already holds more keys than the hard limit.
GuardRailRejects_late(p, size) ==
    /\ size >= kDimensionKeySizeSoftLimit
    /\ size > p.mDimensionHardLimit

\* The verdict for a key that is not in the counter map, which holds `size' keys.
GuardRailRejects(p, size) ==
    /\ size >= kDimensionKeySizeSoftLimit
    /\ size + 1 > p.mDimensionHardLimit

\* The hard limit is reported to StatsdStats only the first time it is hit in a bucket.
hitGuardRailLocked_quiet(p, newKey) ==
    IF Has(p.mCurrentSlicedCounter, newKey) THEN [hit |-> FALSE, p |-> p]
    ELSE IF GuardRailRejects(p, CounterSize(p))
      THEN [hit |-> TRUE,
            p |-> [p EXCEPT !.mHasHitGuardrail = TRUE,
                            !.mDimensionGuardrailHit = TRUE,
                            !.hardLimitReachedCount =
                                IF p.mHasHitGuardrail THEN @ ELSE @ + 1]]
      ELSE [hit |-> FALSE, p |-> p]

\* The guardrail is applied to a key that already has a counter too.
hitGuardRailLocked_anyKey(p, newKey) ==
    IF GuardRailRejects(p, CounterSize(p))
      THEN [hit |-> TRUE,
            p |-> [p EXCEPT !.mHasHitGuardrail = TRUE,
                            !.mDimensionGuardrailHit = TRUE,
                            !.hardLimitReachedCount = @ + 1]]
      ELSE [hit |-> FALSE, p |-> p]

hitGuardRailLocked(p, newKey) ==
    IF Has(p.mCurrentSlicedCounter, newKey) THEN [hit |-> FALSE, p |-> p]
    ELSE IF GuardRailRejects(p, CounterSize(p))
      THEN [hit |-> TRUE,
            p |-> [p EXCEPT !.mHasHitGuardrail = TRUE,
                            !.mDimensionGuardrailHit = TRUE,
                            !.hardLimitReachedCount = @ + 1]]
      ELSE [hit |-> FALSE, p |-> p]

(***************************************************************************)
(* CountMetricProducer::onMatchedLogEventInternalLocked                    *)
(***************************************************************************)
\* The counter of the key is set to one instead of incremented.
onMatchedLogEventInternalLocked_resets(p, eventKey, condition, eventTimeNs) ==
    LET f == flushIfNeededLocked(p, eventTimeNs)
        g == hitGuardRailLocked(f, eventKey)
        counted == [g.p EXCEPT !.mCurrentSlicedCounter = Put(@, eventKey, 1)]
    IN IF ~condition THEN f
       ELSE IF ~Has(f.mCurrentSlicedCounter, eventKey) /\ g.hit THEN g.p
       ELSE counted

onMatchedLogEventInternalLocked(p, eventKey, condition, eventTimeNs) ==
    LET f == flushIfNeededLocked(p, eventTimeNs)
        g == hitGuardRailLocked(f, eventKey)
        counted == [g.p EXCEPT !.mCurrentSlicedCounter =
                        Put(@, eventKey, Get0(@, eventKey) + 1)]
        countWholeBucket == counted.mCurrentSlicedCounter[eventKey]
                            + Get0(counted.mCurrentFullCounters, eventKey)
    IN IF ~condition THEN f
       ELSE IF ~Has(f.mCurrentSlicedCounter, eventKey) /\ g.hit THEN g.p
       ELSE IF counted.mAnomalyTrackers > 0
         THEN [counted EXCEPT !.lastAnomalyCheck =
                  [eventTimeNs |-> eventTimeNs, bucketNum |-> counted.mCurrentBucketNum,
                   key |-> eventKey, countWholeBucket |-> countWholeBucket]]
         ELSE counted

(***************************************************************************)
(* MetricProducer::passesSampleCheckLocked and onMatchedLogEventLocked     *)
(***************************************************************************)
\* shouldKeepSample: keep the event iff its hashed sample field falls in this shard.
ShardOffset == 0
shouldKeepSample(sampleHash, shardOffset, shardCount) == (sampleHash % shardCount) = shardOffset

passesSampleCheckLocked(p, event) ==
    IF p.mShardCount <= 1 THEN TRUE
    ELSE shouldKeepSample(event.sampleHash, ShardOffset, p.mShardCount)

\* The condition the event is counted under.
EventCondition(p, event) ==
    IF p.mConditionSliced THEN event.sliceQuery = "kTrue"
    ELSE p.mCondition = "kTrue"

\* Events are processed whether the metric is active or not.
onMatchedLogEventLocked_ignoresActive(p, event) ==
    IF event.ts < p.mTimeBaseNs THEN p
    ELSE IF ~passesSampleCheckLocked(p, event) THEN p
    ELSE onMatchedLogEventInternalLocked(p, event.key, EventCondition(p, event), event.ts)

\* The sampling check is skipped.
onMatchedLogEventLocked_unsampled(p, event) ==
    IF ~p.mIsActive THEN p
    ELSE IF event.ts < p.mTimeBaseNs THEN p
    ELSE onMatchedLogEventInternalLocked(p, event.key, EventCondition(p, event), event.ts)

onMatchedLogEventLocked(p, event) ==
    IF ~p.mIsActive THEN p
    ELSE IF event.ts < p.mTimeBaseNs THEN p
    ELSE IF ~passesSampleCheckLocked(p, event) THEN p
    ELSE onMatchedLogEventInternalLocked(p, event.key, EventCondition(p, event), event.ts)
(***************************************************************************)
(* CountMetricProducer::onConditionChangedLocked                           *)
(***************************************************************************)
\* The condition is recorded as true whatever the change says.
onConditionChangedLocked_alwaysTrue(p, conditionMet, eventTime) ==
    LET c == [p EXCEPT !.mCondition = "kTrue"]
    IN IF ~c.mIsActive THEN c
       ELSE [c EXCEPT !.mConditionTimer = TimerOnConditionChanged(@, conditionMet, eventTime)]

onConditionChangedLocked(p, conditionMet, eventTime) ==
    LET c == [p EXCEPT !.mCondition = IF conditionMet THEN "kTrue" ELSE "kFalse"]
    IN IF ~c.mIsActive THEN c
       ELSE [c EXCEPT !.mConditionTimer = TimerOnConditionChanged(@, conditionMet, eventTime)]

(***************************************************************************)
(* CountMetricProducer::onDumpReportLocked                                 *)
(***************************************************************************)
\* What the report says about one stored bucket (CountBucketInfo).
BucketInfo(p, bucket) ==
    LET withCondition == p.mConditionTrackerIndex >= 0 /\ ~p.mConditionSliced
        conditionTrueNs == IF withCondition THEN bucket.mConditionTrueNs ELSE -1
    IN IF bucket.mBucketEndNs - bucket.mBucketStartNs # BucketSizeNs
         THEN [partial |-> TRUE, start |-> bucket.mBucketStartNs, end |-> bucket.mBucketEndNs,
               count |-> bucket.mCount, condition_true_ns |-> conditionTrueNs]
         ELSE [partial |-> FALSE, bucket_num |-> getBucketNumFromEndTimeNs(p, bucket.mBucketEndNs),
               count |-> bucket.mCount, condition_true_ns |-> conditionTrueNs]

EmptyReport == [is_active |-> FALSE, data |-> EmptyMap, bulk |-> 0, guardrail_hit |-> FALSE]

\* Erasing the data leaves the guardrail flag as it is.
onDumpReportLocked_keepsFlag(p, dumpTimeNs, include_current_partial_bucket, erase_data) ==
    LET f == IF include_current_partial_bucket THEN flushLocked(p, dumpTimeNs)
             ELSE flushIfNeededLocked(p, dumpTimeNs)
        empty == DOMAIN f.mPastBuckets = {} /\ f.mBulkPastBuckets = 0
        out == [is_active |-> f.mIsActive,
                data |-> [k \in DOMAIN f.mPastBuckets |->
                            [i \in 1..Len(f.mPastBuckets[k]) |-> BucketInfo(f, f.mPastBuckets[k][i])]],
                bulk |-> f.mBulkPastBuckets,
                guardrail_hit |-> f.mDimensionGuardrailHit]
    IN IF empty THEN [p |-> f, out |-> [EmptyReport EXCEPT !.is_active = f.mIsActive]]
       ELSE [p |-> IF erase_data
                     THEN [f EXCEPT !.mPastBuckets = EmptyMap, !.mBulkPastBuckets = 0]
                     ELSE f,
             out |-> out]

\* Returns [p |-> the producer afterwards, out |-> what was written to the report].
onDumpReportLocked(p, dumpTimeNs, include_current_partial_bucket, erase_data) ==
    LET f == IF include_current_partial_bucket THEN flushLocked(p, dumpTimeNs)
             ELSE flushIfNeededLocked(p, dumpTimeNs)
        empty == DOMAIN f.mPastBuckets = {} /\ f.mBulkPastBuckets = 0
        out == [is_active |-> f.mIsActive,
                data |-> [k \in DOMAIN f.mPastBuckets |->
                            [i \in 1..Len(f.mPastBuckets[k]) |-> BucketInfo(f, f.mPastBuckets[k][i])]],
                bulk |-> f.mBulkPastBuckets,
                guardrail_hit |-> f.mDimensionGuardrailHit]
    IN IF empty THEN [p |-> f, out |-> [EmptyReport EXCEPT !.is_active = f.mIsActive]]
       ELSE [p |-> IF erase_data
                     THEN [f EXCEPT !.mPastBuckets = EmptyMap, !.mBulkPastBuckets = 0,
                                    !.mDimensionGuardrailHit = FALSE]
                     ELSE f,
             out |-> out]

(***************************************************************************)
(* CountMetricProducer::dropDataLocked                                     *)
(***************************************************************************)
\* The past buckets are kept.
dropDataLocked_keeps(p, dropTimeNs) == flushIfNeededLocked(p, dropTimeNs)

dropDataLocked(p, dropTimeNs) ==
    [flushIfNeededLocked(p, dropTimeNs) EXCEPT !.mPastBuckets = EmptyMap, !.mBulkPastBuckets = 0]

(***************************************************************************)
(* onActiveStateChangedLocked (MetricProducer, then CountMetricProducer)   *)
(***************************************************************************)
\* MetricProducer: leaving the active state closes the running bucket at eventTime.
baseOnActiveStateChangedLocked(p, eventTimeNs, isActive) ==
    IF ~isActive THEN flushLocked(p, eventTimeNs) ELSE p

onActiveStateChangedLocked(p, eventTimeNs, isActive) ==
    LET called == [p EXCEPT !.activeStateCalls =
                      <<[ts |-> eventTimeNs, isActive |-> isActive, flag |-> p.mIsActive]>>]
        b == baseOnActiveStateChangedLocked(called, eventTimeNs, isActive)
    IN IF b.mCondition # "kTrue" THEN b
       ELSE [b EXCEPT !.mConditionTimer = TimerOnConditionChanged(@, isActive, eventTimeNs)]

\* MetricProducer::notifyAppUpgrade: split the bucket when the metric asks for it.
notifyAppUpgrade(p, eventTimeNs) ==
    IF ~p.mSplitBucketForAppUpgrade THEN p ELSE flushLocked(p, eventTimeNs)

(***************************************************************************)
(* Activations (MetricProducer)                                            *)
(***************************************************************************)
\* An activation already expires at the instant start_ns + ttl_ns.
evaluateActiveStateLocked_early(p, elapsedTimestampNs) ==
    LET expired(a) == a.state = "kActive" /\ elapsedTimestampNs >= a.ttl_ns + a.start_ns
        m == [i \in DOMAIN p.mEventActivationMap |->
                IF expired(p.mEventActivationMap[i])
                  THEN [p.mEventActivationMap[i] EXCEPT !.state = "kNotActive"]
                  ELSE p.mEventActivationMap[i]]
    IN [p |-> [p EXCEPT !.mEventActivationMap = m],
        isActive |-> \/ DOMAIN m = {}
                     \/ \E i \in DOMAIN m : m[i].state = "kActive"]

evaluateActiveStateLocked(p, elapsedTimestampNs) ==
    LET expired(a) == a.state = "kActive" /\ elapsedTimestampNs > a.ttl_ns + a.start_ns
        m == [i \in DOMAIN p.mEventActivationMap |->
                IF expired(p.mEventActivationMap[i])
                  THEN [p.mEventActivationMap[i] EXCEPT !.state = "kNotActive"]
                  ELSE p.mEventActivationMap[i]]
    IN [p |-> [p EXCEPT !.mEventActivationMap = m],
        isActive |-> \/ DOMAIN m = {}
                     \/ \E i \in DOMAIN m : m[i].state = "kActive"]

\* The metric is told it is no longer active but mIsActive stays set.
flushIfExpire_staysActive(p, elapsedTimestampNs) ==
    LET e == evaluateActiveStateLocked(p, elapsedTimestampNs)
    IN IF ~p.mIsActive THEN p
       ELSE IF ~e.isActive THEN onActiveStateChangedLocked(e.p, elapsedTimestampNs, FALSE)
       ELSE e.p

flushIfExpire(p, elapsedTimestampNs) ==
    LET e == evaluateActiveStateLocked(p, elapsedTimestampNs)
    IN IF ~p.mIsActive THEN p
       ELSE IF ~e.isActive
         THEN [onActiveStateChangedLocked(e.p, elapsedTimestampNs, FALSE) EXCEPT !.mIsActive = FALSE]
         ELSE e.p

\* The metric is told about its activation before mIsActive is set.
activateLocked_callsFirst(p, activationTrackerIndex, elapsedTimestampNs) ==
    IF ~Has(p.mEventActivationMap, activationTrackerIndex) THEN p
    ELSE LET activation == p.mEventActivationMap[activationTrackerIndex]
             started == [p EXCEPT !.mEventActivationMap[activationTrackerIndex] =
                            [@ EXCEPT !.start_ns = elapsedTimestampNs, !.state = "kActive"]]
         IN IF activation.activationType = "ACTIVATE_ON_BOOT"
              THEN IF activation.state = "kNotActive"
                     THEN [p EXCEPT !.mEventActivationMap[activationTrackerIndex].state =
                              "kActiveOnBoot"]
                     ELSE p
              ELSE IF ~started.mIsActive
                     THEN [onActiveStateChangedLocked(started, elapsedTimestampNs, TRUE)
                              EXCEPT !.mIsActive = TRUE]
                     ELSE started

\* An activation on boot takes effect at once, like an immediate one.
activateLocked_bootActivates(p, activationTrackerIndex, elapsedTimestampNs) ==
    IF ~Has(p.mEventActivationMap, activationTrackerIndex) THEN p
    ELSE LET started == [p EXCEPT !.mEventActivationMap[activationTrackerIndex] =
                            [@ EXCEPT !.start_ns = elapsedTimestampNs, !.state = "kActive"]]
         IN IF ~started.mIsActive
              THEN onActiveStateChangedLocked([started EXCEPT !.mIsActive = TRUE],
                                              elapsedTimestampNs, TRUE)
              ELSE started

\* An activation that is already active keeps the start of its running period.
activateLocked_keepsStart(p, activationTrackerIndex, elapsedTimestampNs) ==
    IF ~Has(p.mEventActivationMap, activationTrackerIndex) THEN p
    ELSE LET activation == p.mEventActivationMap[activationTrackerIndex]
             started == [p EXCEPT !.mEventActivationMap[activationTrackerIndex] =
                            [@ EXCEPT !.start_ns = IF activation.state = "kActive"
                                                     THEN activation.start_ns
                                                     ELSE elapsedTimestampNs,
                                      !.state = "kActive"]]
         IN IF activation.activationType = "ACTIVATE_ON_BOOT"
              THEN IF activation.state = "kNotActive"
                     THEN [p EXCEPT !.mEventActivationMap[activationTrackerIndex].state =
                              "kActiveOnBoot"]
                     ELSE p
              ELSE IF ~started.mIsActive
                     THEN onActiveStateChangedLocked([started EXCEPT !.mIsActive = TRUE],
                                                     elapsedTimestampNs, TRUE)
                     ELSE started

activateLocked(p, activationTrackerIndex, elapsedTimestampNs) ==
    IF ~Has(p.mEventActivationMap, activationTrackerIndex) THEN p
    ELSE LET activation == p.mEventActivationMap[activationTrackerIndex]
             started == [p EXCEPT !.mEventActivationMap[activationTrackerIndex] =
                            [@ EXCEPT !.start_ns = elapsedTimestampNs, !.state = "kActive"]]
         IN IF activation.activationType = "ACTIVATE_ON_BOOT"
              THEN IF activation.state = "kNotActive"
                     THEN [p EXCEPT !.mEventActivationMap[activationTrackerIndex].state =
                              "kActiveOnBoot"]
                     ELSE p
              ELSE IF ~started.mIsActive
                     THEN onActiveStateChangedLocked([started EXCEPT !.mIsActive = TRUE],
                                                     elapsedTimestampNs, TRUE)
                     ELSE started

\* A deactivation cancels every activation of the metric, listed under it or not.
cancelEventActivationLocked_all(p, deactivationTrackerIndex) ==
    IF ~Has(p.mEventDeactivationMap, deactivationTrackerIndex) THEN p
    ELSE [p EXCEPT !.mEventActivationMap =
            [i \in DOMAIN @ |-> [@[i] EXCEPT !.state = "kNotActive"]]]

cancelEventActivationLocked(p, deactivationTrackerIndex) ==
    IF ~Has(p.mEventDeactivationMap, deactivationTrackerIndex) THEN p
    ELSE [p EXCEPT !.mEventActivationMap =
            [i \in DOMAIN @ |->
                IF i \in p.mEventDeactivationMap[deactivationTrackerIndex]
                  THEN [@[i] EXCEPT !.state = "kNotActive"] ELSE @[i]]]

(***************************************************************************)
(* Active-metric snapshot: writeActiveMetricToProtoOutputStream and        *)
(* loadActiveMetricLocked.  A snapshot is the written ActiveMetric: a map  *)
(* from atom_matcher_index to the ActiveEventActivation written for it.    *)
(***************************************************************************)
DumpReportReasons == {"DEVICE_SHUTDOWN", "TERMINATION_SIGNAL_RECEIVED", "STATSCOMPANION_DIED",
                      "GET_DATA_CALLED"}

Written(p, i, currentTimeNs) ==
    LET a == p.mEventActivationMap[i]
    IN ~ (\/ a.state = "kNotActive"
          \/ (a.state = "kActive" /\ a.start_ns + a.ttl_ns < currentTimeNs))

\* An activation waiting for the boot is written only on a shutdown or a termination.
writeActiveMetricToProtoOutputStream_dropsOnBoot(p, currentTimeNs, reason) ==
    [i \in {j \in DOMAIN p.mEventActivationMap :
                /\ Written(p, j, currentTimeNs)
                /\ (p.mEventActivationMap[j].state = "kActiveOnBoot"
                        => reason \in {"DEVICE_SHUTDOWN", "TERMINATION_SIGNAL_RECEIVED"})} |->
        LET a == p.mEventActivationMap[i]
        IN IF a.state = "kActive"
             THEN [has_state |-> TRUE, state |-> "ACTIVE", has_ttl |-> TRUE,
                   remaining_ttl_nanos |-> a.start_ns + a.ttl_ns - currentTimeNs]
             ELSE [has_state |-> TRUE, state |-> "ACTIVE", has_ttl |-> TRUE,
                   remaining_ttl_nanos |-> a.ttl_ns]]

writeActiveMetricToProtoOutputStream(p, currentTimeNs, reason) ==
    [i \in {j \in DOMAIN p.mEventActivationMap : Written(p, j, currentTimeNs)} |->
        LET a == p.mEventActivationMap[i]
        IN IF a.state = "kActive"
             THEN [has_state |-> TRUE, state |-> "ACTIVE", has_ttl |-> TRUE,
                   remaining_ttl_nanos |-> a.start_ns + a.ttl_ns - currentTimeNs]
           ELSE IF reason \in {"DEVICE_SHUTDOWN", "TERMINATION_SIGNAL_RECEIVED"}
             THEN [has_state |-> TRUE, state |-> "ACTIVE", has_ttl |-> TRUE,
                   remaining_ttl_nanos |-> a.ttl_ns]
           ELSE IF reason = "STATSCOMPANION_DIED"
             THEN [has_state |-> TRUE, state |-> "ACTIVATE_ON_BOOT", has_ttl |-> FALSE,
                   remaining_ttl_nanos |-> 0]
           ELSE [has_state |-> FALSE, state |-> "UNKNOWN", has_ttl |-> FALSE,
                 remaining_ttl_nanos |-> 0]]

\* The activation starts anew at the load time.
LoadOne_restarts(activation, saved, currentTimeNs) ==
    IF ~saved.has_state \/ saved.state = "ACTIVE"
      THEN [activation EXCEPT !.start_ns = currentTimeNs, !.state = "kActive"]
    ELSE IF saved.state = "ACTIVATE_ON_BOOT"
      THEN [activation EXCEPT !.state = "kActiveOnBoot"]
    ELSE activation

\* One saved activation applied to the activation it names.
LoadOne(activation, saved, currentTimeNs) ==
    IF ~saved.has_state \/ saved.state = "ACTIVE"
      THEN [activation EXCEPT
              !.start_ns = currentTimeNs + saved.remaining_ttl_nanos - activation.ttl_ns,
              !.state = "kActive"]
    ELSE IF saved.state = "ACTIVATE_ON_BOOT"
      THEN [activation EXCEPT !.state = "kActiveOnBoot"]
    ELSE activation

loadActiveMetricLocked(p, activeMetric, currentTimeNs) ==
    IF DOMAIN p.mEventActivationMap = {} THEN p
    ELSE LET found == (DOMAIN activeMetric) \cap (DOMAIN p.mEventActivationMap)
             activates(i) == ~activeMetric[i].has_state \/ activeMetric[i].state = "ACTIVE"
         IN [p EXCEPT
               !.mEventActivationMap =
                   [i \in DOMAIN @ |->
                       IF i \in found THEN LoadOne(@[i], activeMetric[i], currentTimeNs)
                       ELSE @[i]],
               !.mIsActive = IF \E i \in found : activates(i) THEN TRUE ELSE @]
(***************************************************************************)
(* StatsPullerManager                                                      *)
(***************************************************************************)
NO_ALARM_UPDATE == 2147483647            \* INT64_MAX in the program
NsPerMinute == 12                        \* 60 * NS_PER_SEC
ReceiverKeys == {"c1"}                   \* (atomTag, configKey) pairs with receivers
ReceiverIds == {"r1", "r2"}              \* PullDataReceiver objects
PullAtomUids == <<"u1", "u2">>           \* getPullAtomUids(tagId) of every uid provider
PullStatuses == {"PULL_SUCCESS", "PULL_FAIL", "PULL_DEAD_OBJECT"}

\* The keys of mReceivers in map order.
KeyOrder == <<"c1">>

\* The interval is rounded up to whole minutes.
RoundedInterval_up(intervalNs) ==
    CDiv(intervalNs + NsPerMinute - 1, NsPerMinute) * NsPerMinute

\* RegisterReceiver: the interval is rounded down to whole minutes, at least one minute.
RoundedInterval(intervalNs) ==
    LET roundedIntervalNs == CDiv(intervalNs, NsPerMinute) * NsPerMinute
    IN IF roundedIntervalNs < NsPerMinute THEN NsPerMinute ELSE roundedIntervalNs

\* The next pull time is moved by the buckets already passed only.
AdvancedPullTime_behind(info, elapsedTimeNs) ==
    LET numBucketsAhead == CDiv(elapsedTimeNs - info.nextPullTimeNs, info.intervalNs)
    IN info.nextPullTimeNs + numBucketsAhead * info.intervalNs

\* OnAlarmFired: the next pull time of a served receiver.
AdvancedPullTime(info, elapsedTimeNs) ==
    LET numBucketsAhead == CDiv(elapsedTimeNs - info.nextPullTimeNs, info.intervalNs)
    IN info.nextPullTimeNs + (numBucketsAhead + 1) * info.intervalNs

\* PullLocked(tagId, uids): the first uid with a registered puller is pulled.
RECURSIVE FirstPuller(_, _)
FirstPuller(pullers, i) ==
    IF i > Len(PullAtomUids) THEN "none"
    ELSE IF PullAtomUids[i] \in pullers THEN PullAtomUids[i]
    ELSE FirstPuller(pullers, i + 1)

\* A puller that returned PULL_DEAD_OBJECT stays registered.
PullLocked_keepsDead(pullers, providers, configKey, status) ==
    LET uid == FirstPuller(pullers, 1)
    IN IF configKey \notin providers \/ uid = "none"
         THEN [ok |-> FALSE, pullers |-> pullers, invoked |-> "none"]
         ELSE [ok |-> status = "PULL_SUCCESS", pullers |-> pullers, invoked |-> uid]

\* PullLocked(tagId, configKey): [ok, pullers afterwards, puller invoked].
PullLocked(pullers, providers, configKey, status) ==
    LET uid == FirstPuller(pullers, 1)
    IN IF configKey \notin providers THEN [ok |-> FALSE, pullers |-> pullers, invoked |-> "none"]
       ELSE IF uid = "none" THEN [ok |-> FALSE, pullers |-> pullers, invoked |-> "none"]
       ELSE [ok |-> status = "PULL_SUCCESS",
             pullers |-> IF status = "PULL_DEAD_OBJECT" THEN pullers \ {uid} ELSE pullers,
             invoked |-> uid]

\* Pulls of OnAlarmFired, one per key of needToPull, in map order.
RECURSIVE PullAll(_, _, _, _, _)
PullAll(pullers, providers, needToPull, statusOf, i) ==
    IF i > Len(KeyOrder) THEN [pullers |-> pullers, results |-> EmptyMap]
    ELSE IF KeyOrder[i] \notin needToPull
      THEN PullAll(pullers, providers, needToPull, statusOf, i + 1)
    ELSE LET r == PullLocked(pullers, providers, KeyOrder[i], statusOf[KeyOrder[i]])
             rest == PullAll(r.pullers, providers, needToPull, statusOf, i + 1)
         IN [pullers |-> rest.pullers, results |-> Put(rest.results, KeyOrder[i], r)]

MinOf(S) == IF S = {} THEN NO_ALARM_UPDATE ELSE CHOOSE m \in S : \A n \in S : m <= n

\* The entries of mReceivers as (key, position) pairs.
Entries(receivers) ==
    {e \in (DOMAIN receivers) \X (1..Cardinality(ReceiverIds)) : e[2] <= Len(receivers[e[1]])}

(***************************************************************************)
(* StatsPullerManager::OnAlarmFired.  `state' is the receivers' state when *)
(* the alarm fires, `gone' the receivers whose last strong reference is    *)
(* dropped while the pulls are made, `statusOf' what each puller returns.  *)
(* The result tells whether an expired receiver was dereferenced.          *)
(***************************************************************************)
OnAlarmFired(receivers, pullers, providers, state, gone, statusOf, elapsedTimeNs) ==
    LET info(e) == receivers[e[1]][e[2]]
        alive(e) == state[info(e).receiver].alive
        due(e) == info(e).nextPullTimeNs <= elapsedTimeNs
        pullNecessary(e) == alive(e) /\ state[info(e).receiver].pullNeeded
        all == Entries(receivers)
        pulling == {e \in all : due(e) /\ pullNecessary(e)}
        notNeeded == {e \in all \ pulling : due(e)}
        nullDeref == {e \in notNeeded : ~alive(e)}
        needToPull == {e[1] : e \in pulling}
        pulled == PullAll(pullers, providers, needToPull, statusOf, 1)
        served == {e \in pulling : info(e).receiver \notin gone}
        advanced == notNeeded \cup served
        after(e) == IF e \in advanced
                      THEN [info(e) EXCEPT !.nextPullTimeNs = AdvancedPullTime(info(e), elapsedTimeNs)]
                      ELSE info(e)
        minNextPullTimeNs == MinOf({after(e).nextPullTimeNs : e \in (all \ pulling) \cup served})
    IN [mReceivers |-> [k \in DOMAIN receivers |->
                           [i \in 1..Len(receivers[k]) |-> after(<<k, i>>)]],
        kAllPullAtomInfo |-> pulled.pullers,
        mNextPullTimeNs |-> minNextPullTimeNs,
        pulledKeys |-> needToPull,
        invoked |-> {pulled.results[k].invoked : k \in DOMAIN pulled.results} \ {"none"},
        notified |-> {info(e).receiver : e \in (notNeeded \ nullDeref) \cup served},
        withData |-> {info(e).receiver : e \in served},
        nullDeref |-> {info(e).receiver : e \in nullDeref}]
(***************************************************************************)
(* A burst of BurstSize matched events at one instant, one event for each  *)
(* of BurstSize dimension keys b1, b2, ... that are not in Keys (the same  *)
(* keys, in the same order, in every burst).  Every event of the burst     *)
(* runs onMatchedLogEventLocked; mBulkCounter holds how many of these keys *)
(* are in the counter map (a prefix b1..bn) and the count each has.  A     *)
(* fresh key is inserted unless hitGuardRailLocked rejects it, and a       *)
(* rejected key leaves the map size as it is, so the keys after the first  *)
(* rejected one are rejected too.                                          *)
(***************************************************************************)
onMatchedBurstLocked(p, eventTimeNs) ==
    LET f == flushIfNeededLocked(p, eventTimeNs)
        known == f.mBulkCounter.n
        fresh == BurstSize - known
        size == CounterSize(f)
        inserted == Cardinality({i \in 1..fresh : ~GuardRailRejects(f, size + i - 1)})
        dropped == fresh - inserted
        counted == [f EXCEPT !.mBulkCounter =
                       [n |-> known + inserted,
                        c |-> IF known + inserted = 0 THEN 0 ELSE @.c + 1]]
    IN IF ~p.mIsActive \/ eventTimeNs < p.mTimeBaseNs THEN p
       ELSE IF ~EventCondition(p, [sliceQuery |-> "kTrue"]) THEN f
       ELSE IF dropped = 0 THEN counted
       ELSE [counted EXCEPT !.mHasHitGuardrail = TRUE,
                            !.mDimensionGuardrailHit = TRUE,
                            !.hardLimitReachedCount = @ + dropped]

(***************************************************************************)
(* Construction                                                            *)
(***************************************************************************)
\* MetricProducer::initialCondition
initialCondition(conditionIndex, initialConditionCache) ==
    IF conditionIndex >= 0 THEN initialConditionCache ELSE "kTrue"

\* A configuration: the arguments of the constructor and what the metric config sets.
PlainConfig ==
    [timeBaseNs |-> 0, startTimeNs |-> 0, conditionIndex |-> -1, initialCondition |-> "kUnknown",
     conditionSliced |-> FALSE, threshold |-> NoThreshold, anomalyTrackers |-> 0,
     max_dimensions_per_bucket |-> 0, splitBucketForAppUpgrade |-> TRUE, shardCount |-> 0,
     eventActivationMap |-> EmptyMap, eventDeactivationMap |-> EmptyMap]

\* MetricProducer::MetricProducer followed by CountMetricProducer::CountMetricProducer
\* (anomaly trackers are added after construction).
NewCountMetricProducer(c) ==
    LET base == [mTimeBaseNs |-> c.timeBaseNs,
                 mConditionTrackerIndex |-> c.conditionIndex,
                 mConditionSliced |-> c.conditionSliced,
                 mUploadThreshold |-> c.threshold,
                 mEventDeactivationMap |-> c.eventDeactivationMap,
                 mAnomalyTrackers |-> 0,
                 mDimensionHardLimit |-> clampDimensionKeySizeLimit(c.max_dimensions_per_bucket),
                 mSplitBucketForAppUpgrade |-> c.splitBucketForAppUpgrade,
                 mShardCount |-> c.shardCount,
                 mCurrentBucketStartTimeNs |-> c.timeBaseNs,
                 mCurrentBucketNum |-> 0,
                 mCondition |-> initialCondition(c.conditionIndex, c.initialCondition),
                 mConditionTimer |-> ConditionTimerInit(FALSE, c.timeBaseNs),
                 mCurrentSlicedCounter |-> EmptyMap,
                 mCurrentFullCounters |-> EmptyMap,
                 mPastBuckets |-> EmptyMap,
                 mBulkCounter |-> [n |-> 0, c |-> 0],
                 mBulkPastBuckets |-> 0,
                 mDimensionGuardrailHit |-> FALSE,
                 mHasHitGuardrail |-> FALSE,
                 mIsActive |-> DOMAIN c.eventActivationMap = {},
                 mEventActivationMap |-> c.eventActivationMap,
                 addPastBucketCalls |-> <<>>,
                 lastAnomalyCheck |-> NoAnomalyCheck,
                 hardLimitReachedCount |-> 0,
                 activeStateCalls |-> <<>>,
                 bucketOpened |-> FALSE]
        f == [flushIfNeededLocked(base, c.startTimeNs) EXCEPT
                 !.mCurrentBucketStartTimeNs = c.startTimeNs]
        t0 == TimerNewBucketStart(f.mConditionTimer, c.startTimeNs, c.startTimeNs).timer
    IN [f EXCEPT !.mConditionTimer =
                     TimerOnConditionChanged(t0, f.mIsActive /\ f.mCondition = "kTrue",
                                             c.startTimeNs),
                 !.mAnomalyTrackers = c.anomalyTrackers]

NoOp == [op |-> "other", partial |-> FALSE, erase |-> FALSE, flushed |-> FALSE,
         afterDrop |-> FALSE]
NoRun == [phase |-> "off", lastTs |-> 0, ev |-> EmptyMap, step |-> -1]
NoSnapshot == [saved |-> FALSE, at |-> 0, activeMetric |-> EmptyMap]

InitProducer(c, monitor) ==
    LET q == NewCountMetricProducer(c)
    IN /\ mTimeBaseNs = q.mTimeBaseNs
       /\ mConditionTrackerIndex = q.mConditionTrackerIndex
       /\ mConditionSliced = q.mConditionSliced
       /\ mUploadThreshold = q.mUploadThreshold
       /\ mAnomalyTrackers = q.mAnomalyTrackers
       /\ mDimensionHardLimit = q.mDimensionHardLimit
       /\ mSplitBucketForAppUpgrade = q.mSplitBucketForAppUpgrade
       /\ mShardCount = q.mShardCount
       /\ mEventDeactivationMap = q.mEventDeactivationMap
       /\ mCurrentBucketStartTimeNs = q.mCurrentBucketStartTimeNs
       /\ mCurrentBucketNum = q.mCurrentBucketNum
       /\ mCondition = q.mCondition
       /\ mConditionTimer = q.mConditionTimer
       /\ mCurrentSlicedCounter = q.mCurrentSlicedCounter
       /\ mCurrentFullCounters = q.mCurrentFullCounters
       /\ mPastBuckets = q.mPastBuckets
       /\ mBulkCounter = q.mBulkCounter
       /\ mBulkPastBuckets = q.mBulkPastBuckets
       /\ mDimensionGuardrailHit = q.mDimensionGuardrailHit
       /\ mHasHitGuardrail = q.mHasHitGuardrail
       /\ mIsActive = q.mIsActive
       /\ mEventActivationMap = q.mEventActivationMap
       /\ addPastBucketCalls = q.addPastBucketCalls
       /\ lastAnomalyCheck = q.lastAnomalyCheck
       /\ hardLimitReachedCount = q.hardLimitReachedCount
       /\ activeStateCalls = q.activeStateCalls
       /\ report = EmptyReport
       /\ snapshot = NoSnapshot
       /\ clock = c.startTimeNs
       /\ lastOp = NoOp
       /\ passed = EmptyMap
       /\ run = monitor
       /\ lastUpdate = EmptyMap

(***************************************************************************)
(* Threads and mutexes.  A thread runs its program over and over; a        *)
(* program is the sequence of the mutex acquisitions and releases of the   *)
(* calls the thread makes, each std::lock_guard being released at the end  *)
(* of its scope.  The receivers r1 and r2 are producers of pulled metrics. *)
(*   alarm   StatsPullerManager::OnAlarmFired: mLock is held while         *)
(*           isPullNeeded and then onDataPulled are called on each         *)
(*           receiver                                                      *)
(*   router  the event router: MetricProducer::flushIfExpire on each       *)
(*           producer, which holds mMutex while the producer's             *)
(*           onActiveStateChangedLocked pulls (StatsPullerManager::Pull)   *)
(*   dump    a dump of each producer, made under the producer's mMutex     *)
(***************************************************************************)
Threads == {"alarm", "router", "dump"}
ProducerOrder == <<"r1", "r2">>
Lock(mutex) == [do |-> "lock", mutex |-> mutex]
Unlock(mutex) == [do |-> "unlock", mutex |-> mutex]

\* A receiver's isPullNeeded and onDataPulled, and a dump, run under the producer's mutex.
UnderProducerMutex(r) == <<Lock(r), Unlock(r)>>

\* MetricProducer::flushIfExpire of a pulled metric that stops being active.
FlushIfExpireProgram(r) == <<Lock(r), Lock("PullManager"), Unlock("PullManager"), Unlock(r)>>

\* StatsPullerManager::OnAlarmFired with both receivers due.
OnAlarmFiredProgram ==
    <<Lock("PullManager")>>
        \o UnderProducerMutex(ProducerOrder[1]) \o UnderProducerMutex(ProducerOrder[2])
        \o UnderProducerMutex(ProducerOrder[1]) \o UnderProducerMutex(ProducerOrder[2])
        \o <<Unlock("PullManager")>>

Programs ==
    [t \in Threads |->
        CASE t = "alarm" -> OnAlarmFiredProgram
          [] t = "router" -> FlushIfExpireProgram(ProducerOrder[1])
                                 \o FlushIfExpireProgram(ProducerOrder[2])
          [] OTHER -> UnderProducerMutex(ProducerOrder[1]) \o UnderProducerMutex(ProducerOrder[2])]

\* lastAlarm: the last alarm handled with no receiver registered or unregistered since;
\* repeat: the alarm before it was at the same time; before: an earlier alarm at that same
\* time dispatched a pull.
NoAlarm == [ts |-> -1, repeat |-> FALSE, pulledKeys |-> {}, withData |-> {}, before |-> FALSE]

(***************************************************************************)
(* StatsdStats: the histories kept for a config (mConfigStats[key]) and    *)
(* for the process.  An entry is the time in seconds it was noted with.    *)
(***************************************************************************)
kMaxTimestampCount == 20
kMaxSystemServerRestarts == 20
StatsUids == {1, 2}

\* A history is named by its field and the uid it is kept for (0: not kept by uid).
ConfigHistories ==
    {<<field, 0>> : field \in {"broadcast_sent_time_sec", "data_drop_time_sec",
                               "dump_report_stats", "activation_time_sec",
                               "deactivation_time_sec"}}
Histories ==
    ConfigHistories \cup {<<"system_restart_sec", 0>>}
                    \cup {<<"guardrail_met_sec", uid>> : uid \in StatsUids}

MaxCountOf(history) ==
    IF history[1] = "system_restart_sec" THEN kMaxSystemServerRestarts ELSE kMaxTimestampCount

\* StatsdStats::StatsdStats followed by noteConfigReceived for the config.
NewStatsdStats == [h \in Histories |-> <<>>]

\* The new entry is dropped when the history is full.
noteTimestamp_keepsOldest(list, maxCount, entry) ==
    IF Len(list) = maxCount THEN list ELSE Append(list, entry)

\* pop_front() at capacity, then push_back(entry).
noteTimestamp(list, maxCount, entry) ==
    Append(IF Len(list) = maxCount THEN Tail(list) ELSE list, entry)

\* noteBroadcastSent, noteDataDropped, noteMetricsReportSent, noteActiveStatusChanged,
\* noteSystemServerRestart and noteActivationBroadcastGuardrailHit, by the history noted in.
note(s, history, timeSec) ==
    [s EXCEPT ![history] = noteTimestamp(@, MaxCountOf(history), timeSec)]

\* StatsPullerManager::StatsPullerManager (the only built-in puller is not modelled).
InitPullerWith(service) ==
    /\ mReceivers = EmptyMap
    /\ mNextPullTimeNs = NO_ALARM_UPDATE
    /\ kAllPullAtomInfo = {}
    /\ mPullUidProviders = {}
    /\ mStatsCompanionService = service
    /\ receiverState = [r \in ReceiverIds |-> [alive |-> TRUE, pullNeeded |-> TRUE]]
    /\ alarmCalls = [set |-> FALSE, at |-> 0]
    /\ lastAlarm = NoAlarm
    /\ crashed = FALSE
    /\ threadPc = [t \in Threads |-> 1]
    /\ heldLocks = [t \in Threads |-> <<>>]
    /\ stats = NewStatsdStats

InitPuller == InitPullerWith(FALSE)
(***************************************************************************)
(* Observers.  They record the history the properties speak about and      *)
(* never restrict what the producer does.                                  *)
(*   clock   the latest instant at which the producer was called           *)
(*   lastOp  the last call made on the producer (at the instant `clock')   *)
(*   passed  per key, the events that were matched, passed the sampling    *)
(*           check and had a true condition since the current bucket was   *)
(*           opened                                                        *)
(*   run     phase "events": so far only matched events, in timestamp      *)
(*           order; ev counts them per key and bucket number;              *)
(*           phase "dumped": such a run followed by one dump;              *)
(*           step: how far the run has followed the condition scenario     *)
(*   lastUpdate  per key of the current counter map, the timestamp of the  *)
(*           last event that updated its counter                           *)
(***************************************************************************)
BucketOf(ts) == CDiv(ts - mTimeBaseNs, BucketSizeNs)

NonePassed == [n |-> 0, d |-> 0]
PassedOf(m, key) == IF Has(m, key) THEN m[key] ELSE NonePassed

\* n: the events of the key that passed; d: those of them the dimension guardrail dropped
\* (the call reported a hard limit hit to StatsdStats).
PassedAfter(q, key) ==
    LET since == IF q.bucketOpened THEN EmptyMap ELSE passed
        dropped == q.hardLimitReachedCount > hardLimitReachedCount
    IN IF key = "none" THEN since
       ELSE Put(since, key, [n |-> PassedOf(since, key).n + 1,
                             d |-> PassedOf(since, key).d + (IF dropped THEN 1 ELSE 0)])

\* The keys whose counter a call updated: the keys it left in a bucket it opened, and the
\* keys whose count it changed.
Updated(q) ==
    {k \in DOMAIN q.mCurrentSlicedCounter :
        q.bucketOpened \/ Get0(mCurrentSlicedCounter, k) # q.mCurrentSlicedCounter[k]}

LastUpdateAfter(q, ts) ==
    [k \in DOMAIN q.mCurrentSlicedCounter |-> IF k \in Updated(q) THEN ts ELSE lastUpdate[k]]

RunOff == [run EXCEPT !.phase = "off", !.lastTs = 0, !.ev = EmptyMap]

RunAfterEvent(ts, key) ==
    IF run.phase = "events" /\ ts >= run.lastTs
      THEN [run EXCEPT !.lastTs = ts,
                       !.ev = IF key = "none" THEN @
                              ELSE Put(@, key, Put(Get0Map(@, key), BucketOf(ts),
                                                   Get0(Get0Map(@, key), BucketOf(ts)) + 1))]
      ELSE RunOff

RunAfterDump(ts) ==
    IF run.phase = "events" /\ ts >= run.lastTs THEN [run EXCEPT !.phase = "dumped"] ELSE RunOff

\* The condition scenario: bucket of 60 s, events at 10, 40, 55, 70, 80 s, the condition
\* turns true at 30 s and false at 65 s, dump at 120 s.
Scenario ==
    << [op |-> "event", ts |-> 2, v |-> TRUE], [op |-> "condition", ts |-> 6, v |-> TRUE],
       [op |-> "event", ts |-> 8, v |-> TRUE], [op |-> "event", ts |-> 11, v |-> TRUE],
       [op |-> "condition", ts |-> 13, v |-> FALSE], [op |-> "event", ts |-> 14, v |-> TRUE],
       [op |-> "event", ts |-> 16, v |-> TRUE], [op |-> "dump", ts |-> 24, v |-> TRUE] >>

StepAfter(r, call) ==
    [r EXCEPT !.step = IF @ >= 0 /\ @ < Len(Scenario) /\ Scenario[@ + 1] = call
                         THEN @ + 1 ELSE -1]

RECURSIVE SumOf(_, _)
SumOf(m, S) ==
    IF S = {} THEN 0
    ELSE LET k == CHOOSE j \in S : TRUE IN m[k] + SumOf(m, S \ {k})

RECURSIVE SumLen(_, _)
SumLen(m, S) ==
    IF S = {} THEN 0
    ELSE LET k == CHOOSE j \in S : TRUE IN Len(m[k]) + SumLen(m, S \ {k})

StoredBuckets(q) == SumLen(q.mPastBuckets, DOMAIN q.mPastBuckets)

\* The bounds of the exploration, on the state a call leads to.
Within(q) ==
    /\ SumOf(q.mCurrentSlicedCounter, DOMAIN q.mCurrentSlicedCounter) <= MaxCount
    /\ \A k \in DOMAIN q.mCurrentFullCounters : q.mCurrentFullCounters[k] <= 2 * MaxCount
    /\ StoredBuckets(q) <= MaxPastBuckets
    /\ q.mBulkCounter.c <= MaxCount
    /\ q.mBulkPastBuckets <= kDimensionKeySizeHardLimitMin
    /\ q.hardLimitReachedCount <= MaxLimitHits

(***************************************************************************)
(* The calls made on a count producer.                                     *)
(***************************************************************************)
Times == {2, 14, 24}                    \* instants at which the environment acts
RunTimes == {2, 4, 14, 24}

SampleHashes == IF mShardCount <= 1 THEN {0} ELSE 0..(mShardCount - 1)
SliceQueries == IF mConditionSliced THEN ConditionStates ELSE {"kTrue"}

MatchedLogEvent(T, K, scenarioKeys) ==
    \E ts \in T, key \in K, h \in SampleHashes, sq \in SliceQueries :
        LET event == [ts |-> ts, key |-> key, sampleHash |-> h, sliceQuery |-> sq]
            q == onMatchedLogEventLocked(P, event)
            consumed == mIsActive /\ ts >= mTimeBaseNs /\ passesSampleCheckLocked(P, event)
            counted == consumed /\ EventCondition(P, event)
        IN /\ ts >= clock
           /\ clock' = ts
           /\ Within(q)
           /\ Commit(q)
           /\ lastUpdate' = LastUpdateAfter(q, ts)
           /\ lastOp' = [NoOp EXCEPT !.flushed = consumed]
           /\ passed' = PassedAfter(q, IF counted THEN key ELSE "none")
           /\ run' = StepAfter(RunAfterEvent(ts, IF counted THEN key ELSE "none"),
                               [op |-> "event", ts |-> ts, v |-> key \in scenarioKeys])
           /\ report' = EmptyReport
           /\ UNCHANGED <<snapshot, pullVars>>

MatchedBurst(T) ==
    \E ts \in T :
        LET q == onMatchedBurstLocked(P, ts)
        IN /\ mAnomalyTrackers = 0
           /\ ts >= clock
           /\ clock' = ts
           /\ Within(q)
           /\ Commit(q)
           /\ lastUpdate' = LastUpdateAfter(q, ts)
           /\ lastOp' = [NoOp EXCEPT !.flushed = mIsActive /\ ts >= mTimeBaseNs]
           /\ passed' = PassedAfter(q, "none")
           /\ run' = StepAfter(RunAfterEvent(ts, "none"), [op |-> "burst", ts |-> ts, v |-> TRUE])
           /\ report' = EmptyReport
           /\ UNCHANGED <<snapshot, pullVars>>

ConditionChanged(T) ==
    \E ts \in T, conditionMet \in BOOLEAN :
        LET q == onConditionChangedLocked(P, conditionMet, ts)
        IN /\ mConditionTrackerIndex >= 0 /\ ~mConditionSliced
           /\ ts >= clock
           /\ clock' = ts
           /\ Within(q)
           /\ Commit(q)
           /\ lastUpdate' = LastUpdateAfter(q, ts)
           /\ lastOp' = NoOp
           /\ passed' = PassedAfter(q, "none")
           /\ run' = StepAfter(RunAfterEvent(ts, "none"),
                               [op |-> "condition", ts |-> ts, v |-> conditionMet])
           /\ report' = EmptyReport
           /\ UNCHANGED <<snapshot, pullVars>>

DumpReport(T) ==
    \E ts \in T, include_current_partial_bucket \in BOOLEAN, erase_data \in BOOLEAN :
        LET r == onDumpReportLocked(P, ts, include_current_partial_bucket, erase_data)
        IN /\ ts >= clock
           /\ clock' = ts
           /\ Within(r.p)
           /\ Commit(r.p)
           /\ lastUpdate' = LastUpdateAfter(r.p, ts)
           /\ report' = r.out
           /\ lastOp' = [op |-> "dump", partial |-> include_current_partial_bucket,
                         erase |-> erase_data, flushed |-> TRUE,
                         afterDrop |-> lastOp.op = "drop" /\ clock = ts]
           /\ passed' = PassedAfter(r.p, "none")
           /\ run' = StepAfter(RunAfterDump(ts), [op |-> "dump", ts |-> ts, v |-> TRUE])
           /\ UNCHANGED <<snapshot, pullVars>>

DropDataAt(T) ==
    \E ts \in T :
        LET q == dropDataLocked(P, ts)
        IN /\ ts >= clock
           /\ clock' = ts
           /\ Within(q)
           /\ Commit(q)
           /\ lastUpdate' = LastUpdateAfter(q, ts)
           /\ lastOp' = [NoOp EXCEPT !.op = "drop", !.flushed = TRUE]
           /\ passed' = PassedAfter(q, "none")
           /\ run' = StepAfter(RunOff, [op |-> "drop", ts |-> ts, v |-> TRUE])
           /\ report' = EmptyReport
           /\ UNCHANGED <<snapshot, pullVars>>

AppUpgrade(T) ==
    \E ts \in T :
        LET q == notifyAppUpgrade(P, ts)
        IN /\ ts >= clock
           /\ clock' = ts
           /\ Within(q)
           /\ Commit(q)
           /\ lastUpdate' = LastUpdateAfter(q, ts)
           /\ lastOp' = [NoOp EXCEPT !.flushed = mSplitBucketForAppUpgrade]
           /\ passed' = PassedAfter(q, "none")
           /\ run' = StepAfter(RunOff, [op |-> "upgrade", ts |-> ts, v |-> TRUE])
           /\ report' = EmptyReport
           /\ UNCHANGED <<snapshot, pullVars>>

(***************************************************************************)
(* Spec: a count producer without condition and activations, under any     *)
(* sequence of calls at non-decreasing instants.                           *)
(***************************************************************************)
CountConfigs ==
    { PlainConfig, [PlainConfig EXCEPT !.threshold = [op |-> "gte", v |-> 2]] }

Init ==
    /\ \E c \in CountConfigs : InitProducer(c, NoRun)
    /\ InitPuller

OnMatchedLogEvent == MatchedLogEvent(Times, Keys, {})
OnDumpReport == DumpReport(Times)
DropData == DropDataAt(Times)
NotifyAppUpgrade == AppUpgrade(Times)

Next ==
    \/ OnMatchedLogEvent
    \/ OnDumpReport
    \/ DropData
    \/ NotifyAppUpgrade

Spec == Init /\ [][Next]_vars

(***************************************************************************)
(* SpecRun: a plain count producer that receives matched events in         *)
(* timestamp order and is then dumped once.                                *)
(***************************************************************************)
InitRun ==
    /\ InitProducer(PlainConfig, [NoRun EXCEPT !.phase = "events"])
    /\ InitPuller

RunEvent == run.phase = "events" /\ MatchedLogEvent(RunTimes, Keys, {})
RunBurst == run.phase = "events" /\ MatchedBurst(RunTimes)
RunDump == run.phase = "events" /\ DumpReport(RunTimes)

NextRun ==
    \/ RunEvent
    \/ RunBurst
    \/ RunDump

SpecRun == InitRun /\ [][NextRun]_vars

(***************************************************************************)
(* SpecGuard: a count producer with a sliced condition and sampling that   *)
(* also receives bursts of events with many distinct keys.                 *)
(***************************************************************************)
GuardTimes == {2, 14}
GuardConfig == [PlainConfig EXCEPT !.conditionIndex = 0, !.conditionSliced = TRUE,
                                   !.shardCount = 2]

InitGuard ==
    /\ InitProducer(GuardConfig, NoRun)
    /\ InitPuller

GuardEvent == MatchedLogEvent(GuardTimes, Keys, {})
GuardBurst == MatchedBurst(GuardTimes)
GuardDrop == DropDataAt(GuardTimes)

NextGuard ==
    \/ GuardEvent
    \/ GuardBurst
    \/ GuardDrop

SpecGuard == InitGuard /\ [][NextGuard]_vars

(***************************************************************************)
(* SpecKnown: the producer of SpecGuard, where each call of                *)
(* onMatchedLogEventLocked is recorded with its key and whether the event  *)
(* reached the counting step.                                              *)
(***************************************************************************)
KnownEvent ==
    \E ts \in GuardTimes, key \in Keys, h \in SampleHashes, sq \in SliceQueries :
        LET event == [ts |-> ts, key |-> key, sampleHash |-> h, sliceQuery |-> sq]
            q == onMatchedLogEventLocked(P, event)
            consumed == mIsActive /\ ts >= mTimeBaseNs /\ passesSampleCheckLocked(P, event)
            counted == consumed /\ EventCondition(P, event)
        IN /\ ts >= clock
           /\ clock' = ts
           /\ Within(q)
           /\ Commit(q)
           /\ lastUpdate' = LastUpdateAfter(q, ts)
           /\ lastOp' = [op |-> "event", ts |-> ts, key |-> key, counted |-> counted]
           /\ passed' = PassedAfter(q, IF counted THEN key ELSE "none")
           /\ run' = RunAfterEvent(ts, IF counted THEN key ELSE "none")
           /\ report' = EmptyReport
           /\ UNCHANGED <<snapshot, pullVars>>

NextKnown ==
    \/ KnownEvent
    \/ GuardBurst
    \/ GuardDrop

SpecKnown == InitGuard /\ [][NextKnown]_vars

(***************************************************************************)
(* SpecAnomaly: a count producer watched by one anomaly tracker.           *)
(***************************************************************************)
AnomalyTimes == {2, 12, 14, 26}
AnomalyConfig == [PlainConfig EXCEPT !.anomalyTrackers = 1]

InitAnomaly ==
    /\ InitProducer(AnomalyConfig, NoRun)
    /\ InitPuller

AnomalyEvent == MatchedLogEvent(AnomalyTimes, {"x"}, {})
AnomalyDump == DumpReport(AnomalyTimes)

NextAnomaly ==
    \/ AnomalyEvent
    \/ AnomalyDump

SpecAnomaly == InitAnomaly /\ [][NextAnomaly]_vars

(***************************************************************************)
(* SpecCond: a count producer with an unsliced condition: matched events   *)
(* and condition changes in timestamp order, then one dump.                *)
(***************************************************************************)
CondTimes == {2, 6, 8, 11, 13, 14, 16, 24}
CondConfigs ==
    { [PlainConfig EXCEPT !.conditionIndex = 0, !.initialCondition = s] : s \in ConditionStates }

InitCond ==
    /\ \E c \in CondConfigs :
          InitProducer(c, [NoRun EXCEPT !.phase = "events",
                                        !.step = IF c.initialCondition = "kTrue" THEN -1 ELSE 0])
    /\ InitPuller

CondEvent == run.phase = "events" /\ MatchedLogEvent(CondTimes, {"x"}, {"x"})
CondChange == run.phase = "events" /\ ConditionChanged(CondTimes)
CondDump == run.phase = "events" /\ DumpReport(CondTimes)

NextCond ==
    \/ CondEvent
    \/ CondChange
    \/ CondDump

SpecCond == InitCond /\ [][NextCond]_vars

(***************************************************************************)
(* SpecAct: a count producer with two activations (one immediate, one on   *)
(* boot) and a deactivation matcher, fed by the event router.              *)
(***************************************************************************)
ActTimes == {2, 10, 22, 30}
ActKeys == {"x"}
ActivationIndices == {0, 1}
DeactivationIndices == {2}

ActConfig ==
    [PlainConfig EXCEPT
        !.eventActivationMap =
            [i \in ActivationIndices |->
                [ttl_ns |-> IF i = 0 THEN 20 ELSE 8, start_ns |-> 0, state |-> "kNotActive",
                 activationType |-> IF i = 0 THEN "ACTIVATE_IMMEDIATELY" ELSE "ACTIVATE_ON_BOOT"]],
        !.eventDeactivationMap = [i \in DeactivationIndices |-> {0}]]

\* The event router: every event first lets the producer expire its activations, then
\* reaches it as a deactivation, an activation or a matched event.
onLogEvent(p, kind, index, event) ==
    LET e == flushIfExpire(p, event.ts)
    IN CASE kind = "cancel" -> cancelEventActivationLocked(e, index)
         [] kind = "activate" -> activateLocked(e, index, event.ts)
         [] OTHER -> onMatchedLogEventLocked(e, event)

InitAct ==
    /\ InitProducer(ActConfig, NoRun)
    /\ InitPuller

ActStep(q, ts, op) ==
    /\ ts >= clock
    /\ clock' = ts
    /\ Within(q)
    /\ Commit(q)
    /\ lastUpdate' = LastUpdateAfter(q, ts)
    /\ lastOp' = [NoOp EXCEPT !.op = op]
    /\ passed' = PassedAfter(q, "none")
    /\ report' = EmptyReport
    /\ UNCHANGED <<run, pullVars>>

ActEvent ==
    \E ts \in ActTimes, key \in ActKeys :
        LET event == [ts |-> ts, key |-> key, sampleHash |-> 0, sliceQuery |-> "kTrue"]
        IN ActStep(onLogEvent(P, "matched", 0, event), ts, "event") /\ UNCHANGED snapshot

ActActivate ==
    \E ts \in ActTimes, i \in ActivationIndices :
        ActStep(onLogEvent(P, "activate", i, [ts |-> ts]), ts, "activate") /\ UNCHANGED snapshot

ActCancel ==
    \E ts \in ActTimes, i \in DeactivationIndices :
        ActStep(onLogEvent(P, "cancel", i, [ts |-> ts]), ts, "cancel") /\ UNCHANGED snapshot

ActFlushIfExpire ==
    \E ts \in ActTimes : ActStep(flushIfExpire(P, ts), ts, "expire") /\ UNCHANGED snapshot

NextAct ==
    \/ ActEvent
    \/ ActActivate
    \/ ActCancel
    \/ ActFlushIfExpire

SpecAct == InitAct /\ [][NextAct]_vars

(***************************************************************************)
(* SpecSnap: the same producer, activated and expired over time, with its  *)
(* active-metric snapshot saved and loaded.                                *)
(***************************************************************************)
SnapTimes == {2, 10, 14, 22, 30}

SnapActivate ==
    \E ts \in SnapTimes, i \in ActivationIndices :
        ActStep(onLogEvent(P, "activate", i, [ts |-> ts]), ts, "activate") /\ UNCHANGED snapshot

SnapFlushIfExpire ==
    \E ts \in SnapTimes : ActStep(flushIfExpire(P, ts), ts, "expire") /\ UNCHANGED snapshot

SnapSave ==
    \E ts \in SnapTimes, reason \in DumpReportReasons :
        /\ ActStep(P, ts, "save")
        /\ snapshot' = [saved |-> TRUE, at |-> ts,
                        activeMetric |-> writeActiveMetricToProtoOutputStream(P, ts, reason)]

SnapLoad ==
    \E ts \in SnapTimes :
        /\ snapshot.saved
        /\ ActStep(loadActiveMetricLocked(P, snapshot.activeMetric, ts), ts, "load")
        /\ UNCHANGED snapshot

NextSnap ==
    \/ SnapActivate
    \/ SnapFlushIfExpire
    \/ SnapSave
    \/ SnapLoad

SpecSnap == InitAct /\ [][NextSnap]_vars

(***************************************************************************)
(* SpecPull: the pull manager with receivers that register, unregister,    *)
(* expire and change their need for pulls, pullers and uid providers that  *)
(* come and go, and the alarm firing at non-decreasing times.              *)
(***************************************************************************)
AlarmTimes == {13, 25}
NextPullTimes == {12}
Intervals == {5, 30}
MillisPerUnit == 5000                    \* one time unit (5 s) in milliseconds

\* StatsPullerManager::updateAlarmLocked: the call made on the companion service, if any.
updateAlarmLocked(nextPullTimeNs, service, calls) ==
    IF nextPullTimeNs = NO_ALARM_UPDATE THEN calls
    ELSE IF service THEN [set |-> TRUE, at |-> nextPullTimeNs * MillisPerUnit]
    ELSE calls

\* The global next pull time is left as it is.
RegisterReceiver_noAlarm(receivers, key, receiver, nextPullTimeNs, intervalNs) ==
    LET list == IF Has(receivers, key) THEN receivers[key] ELSE <<>>
        known == \E i \in 1..Len(list) : list[i].receiver = receiver
        receiverInfo == [receiver |-> receiver, intervalNs |-> RoundedInterval(intervalNs),
                         nextPullTimeNs |-> nextPullTimeNs]
    IN [mReceivers |-> Put(receivers, key, IF known THEN list ELSE Append(list, receiverInfo)),
        mNextPullTimeNs |-> mNextPullTimeNs,
        alarmCalls |-> alarmCalls]

\* StatsPullerManager::RegisterReceiver: [mReceivers, mNextPullTimeNs, alarmCalls] afterwards.
RegisterReceiver(receivers, key, receiver, nextPullTimeNs, intervalNs) ==
    LET list == IF Has(receivers, key) THEN receivers[key] ELSE <<>>
        known == \E i \in 1..Len(list) : list[i].receiver = receiver
        receiverInfo == [receiver |-> receiver, intervalNs |-> RoundedInterval(intervalNs),
                         nextPullTimeNs |-> nextPullTimeNs]
        sooner == nextPullTimeNs < mNextPullTimeNs
    IN IF known
         THEN [mReceivers |-> Put(receivers, key, list), mNextPullTimeNs |-> mNextPullTimeNs,
               alarmCalls |-> alarmCalls]
         ELSE [mReceivers |-> Put(receivers, key, Append(list, receiverInfo)),
               mNextPullTimeNs |-> IF sooner THEN nextPullTimeNs ELSE mNextPullTimeNs,
               alarmCalls |-> IF sooner
                                THEN updateAlarmLocked(nextPullTimeNs, mStatsCompanionService,
                                                       alarmCalls)
                                ELSE alarmCalls]

\* StatsPullerManager::UnRegisterReceiver: the first entry of the receiver is erased.
UnRegisterReceiver(receivers, key, receiver) ==
    IF ~Has(receivers, key) THEN receivers
    ELSE LET list == receivers[key]
             hits == {i \in 1..Len(list) : list[i].receiver = receiver}
             first == CHOOSE i \in hits : \A j \in hits : i <= j
         IN IF hits = {} THEN receivers
            ELSE [receivers EXCEPT ![key] =
                     [i \in 1..(Len(list) - 1) |-> IF i < first THEN list[i] ELSE list[i + 1]]]

\* A call on the pull manager: lastOp records it, the producer is not involved.
PullCall(call) ==
    /\ lastOp' = call
    /\ UNCHANGED <<cfgVars, prodVars, ioVars, clock, passed, run, lastUpdate,
                   threadPc, heldLocks, stats>>

RegisterReceiverAt(N) ==
    \E key \in ReceiverKeys, receiver \in ReceiverIds, next \in N, ivl \in Intervals :
        LET r == RegisterReceiver(mReceivers, key, receiver, next, ivl)
        IN /\ ~crashed
           /\ mReceivers' = r.mReceivers
           /\ mNextPullTimeNs' = r.mNextPullTimeNs
           /\ alarmCalls' = r.alarmCalls
           /\ lastAlarm' = NoAlarm
           /\ UNCHANGED <<kAllPullAtomInfo, mPullUidProviders, mStatsCompanionService,
                          receiverState, crashed>>
           /\ PullCall([op |-> "register", nextPullTimeNs |-> next, intervalNs |-> ivl])

PullRegisterReceiver == RegisterReceiverAt(NextPullTimes)

PullUnRegisterReceiver ==
    \E key \in ReceiverKeys, receiver \in ReceiverIds :
        /\ ~crashed
        /\ mReceivers' = UnRegisterReceiver(mReceivers, key, receiver)
        /\ lastAlarm' = NoAlarm
        /\ UNCHANGED <<mNextPullTimeNs, kAllPullAtomInfo, mPullUidProviders,
                       mStatsCompanionService, receiverState, alarmCalls, crashed>>
        /\ PullCall([op |-> "unregister"])

\* A receiver's last strong reference is dropped, or its need for pulls changes.
ReceiverChanges ==
    \E receiver \in ReceiverIds, alive \in BOOLEAN, pullNeeded \in BOOLEAN :
        /\ ~crashed
        /\ receiverState[receiver].alive
        /\ receiverState' = [receiverState EXCEPT ![receiver] =
                                [alive |-> alive, pullNeeded |-> alive /\ pullNeeded]]
        /\ UNCHANGED <<mReceivers, mNextPullTimeNs, kAllPullAtomInfo, mPullUidProviders,
                       mStatsCompanionService, alarmCalls, lastAlarm, crashed>>
        /\ PullCall(NoOp)

\* RegisterPullAtomCallback / UnregisterPullAtomCallback for the pulled atom.
PullAtomCallbackChanges ==
    \E uid \in {PullAtomUids[i] : i \in 1..Len(PullAtomUids)}, registered \in BOOLEAN :
        /\ ~crashed
        /\ kAllPullAtomInfo' = IF registered THEN kAllPullAtomInfo \cup {uid}
                               ELSE kAllPullAtomInfo \ {uid}
        /\ UNCHANGED <<mReceivers, mNextPullTimeNs, mPullUidProviders, mStatsCompanionService,
                       receiverState, alarmCalls, lastAlarm, crashed>>
        /\ PullCall(NoOp)

\* RegisterPullUidProvider / UnregisterPullUidProvider (an expired provider pulls like none).
PullUidProviderChanges ==
    \E key \in ReceiverKeys, registered \in BOOLEAN :
        /\ ~crashed
        /\ mPullUidProviders' = IF registered THEN mPullUidProviders \cup {key}
                                ELSE mPullUidProviders \ {key}
        /\ UNCHANGED <<mReceivers, mNextPullTimeNs, kAllPullAtomInfo, mStatsCompanionService,
                       receiverState, alarmCalls, lastAlarm, crashed>>
        /\ PullCall(NoOp)

\* The alarm fires.  Receivers in `gone' (among those to be served) expire while the pulls
\* are made.  Calling an expired receiver is undefined: the process may crash there or go on.
AlarmFiredAt(T) ==
    \E elapsedTimeNs \in T :
        LET allSucceed == [k \in ReceiverKeys |-> "PULL_SUCCESS"]
            quiet == OnAlarmFired(mReceivers, kAllPullAtomInfo, mPullUidProviders,
                                  receiverState, {}, allSucceed, elapsedTimeNs)
        IN \E gone \in SUBSET quiet.withData,
              statusOf \in [ReceiverKeys ->
                               IF quiet.pulledKeys = {} THEN {"PULL_SUCCESS"} ELSE PullStatuses],
              survives \in (IF quiet.nullDeref = {} THEN {TRUE} ELSE BOOLEAN) :
            LET r == OnAlarmFired(mReceivers, kAllPullAtomInfo, mPullUidProviders,
                                  receiverState, gone, statusOf, elapsedTimeNs)
                repeat == lastAlarm.ts = elapsedTimeNs
                done(pulledKeys, withData) ==
                    [ts |-> elapsedTimeNs, repeat |-> repeat, pulledKeys |-> pulledKeys,
                     withData |-> withData,
                     before |-> repeat /\ (lastAlarm.before \/ lastAlarm.pulledKeys # {})]
            IN /\ ~crashed
               /\ elapsedTimeNs >= lastAlarm.ts
               /\ IF ~survives
                    THEN /\ crashed' = TRUE
                         /\ lastAlarm' = done({}, {})
                         /\ UNCHANGED <<mReceivers, mNextPullTimeNs, kAllPullAtomInfo,
                                        receiverState, alarmCalls>>
                    ELSE /\ crashed' = FALSE
                         /\ mReceivers' = r.mReceivers
                         /\ kAllPullAtomInfo' = r.kAllPullAtomInfo
                         /\ mNextPullTimeNs' = r.mNextPullTimeNs
                         /\ receiverState' =
                                [x \in ReceiverIds |->
                                    IF x \in gone THEN [alive |-> FALSE, pullNeeded |-> FALSE]
                                    ELSE receiverState[x]]
                         /\ alarmCalls' = updateAlarmLocked(r.mNextPullTimeNs,
                                                            mStatsCompanionService, alarmCalls)
                         /\ lastAlarm' = done(r.pulledKeys, r.withData)
               /\ UNCHANGED <<mPullUidProviders, mStatsCompanionService>>
               /\ PullCall([op |-> "alarm", ts |-> elapsedTimeNs, nullDeref |-> quiet.nullDeref])

PullOnAlarmFired == AlarmFiredAt(AlarmTimes)

\* StatsPullerManager::Pull(tagId, configKey): a producer pulls; lastOp records what the
\* puller returned, whether the pull succeeded and which puller was invoked.
PullPull ==
    \E key \in ReceiverKeys, status \in PullStatuses :
        LET r == PullLocked(kAllPullAtomInfo, mPullUidProviders, key, status)
        IN /\ ~crashed
           /\ r.invoked = "none" => status = "PULL_SUCCESS"
           /\ kAllPullAtomInfo' = r.pullers
           /\ UNCHANGED <<mReceivers, mNextPullTimeNs, mPullUidProviders, mStatsCompanionService,
                          receiverState, alarmCalls, lastAlarm, crashed>>
           /\ PullCall([op |-> "pull", status |-> status, ok |-> r.ok, invoked |-> r.invoked])

\* The companion service is set before the first receiver registers, or never.
InitPull ==
    /\ InitProducer(PlainConfig, NoRun)
    /\ InitPullerWith(TRUE)

NextPull ==
    \/ PullRegisterReceiver
    \/ PullUnRegisterReceiver
    \/ ReceiverChanges
    \/ PullAtomCallbackChanges
    \/ PullUidProviderChanges
    \/ PullOnAlarmFired

SpecPull == InitPull /\ [][NextPull]_vars

(***************************************************************************)
(* SpecOrder: a plain count producer created 20 s after its time base      *)
(* that receives matched events with timestamps in any order, and dumps at *)
(* non-decreasing instants.                                                *)
(***************************************************************************)
OrderTimes == {6, 10, 18, 30}          \* timestamps of the events
OrderDumpTimes == {18}                  \* instants of the dumps
OrderConfig == [PlainConfig EXCEPT !.timeBaseNs = 4, !.startTimeNs = 8]

\* What lastOp records of a matched event.
EventCall(ts, key, consumed) ==
    [op |-> "event", partial |-> FALSE, erase |-> FALSE, flushed |-> consumed,
     afterDrop |-> FALSE, ts |-> ts, key |-> key]

\* onMatchedLogEventLocked for an event of any timestamp, older than earlier ones or not.
MatchedLogEventAnyOrder(T, K) ==
    \E ts \in T, key \in K, h \in SampleHashes, sq \in SliceQueries :
        LET event == [ts |-> ts, key |-> key, sampleHash |-> h, sliceQuery |-> sq]
            q == onMatchedLogEventLocked(P, event)
            consumed == mIsActive /\ ts >= mTimeBaseNs /\ passesSampleCheckLocked(P, event)
            counted == consumed /\ EventCondition(P, event)
        IN /\ clock' = IF ts > clock THEN ts ELSE clock
           /\ Within(q)
           /\ Commit(q)
           /\ lastUpdate' = LastUpdateAfter(q, ts)
           /\ lastOp' = EventCall(ts, key, consumed)
           /\ passed' = PassedAfter(q, IF counted THEN key ELSE "none")
           /\ run' = RunAfterEvent(ts, IF counted THEN key ELSE "none")
           /\ report' = EmptyReport
           /\ UNCHANGED <<snapshot, pullVars>>

\* run.phase stays "events" while the events come in timestamp order, the first of them not
\* before the start of the producer's first bucket.
InitOrder ==
    /\ InitProducer(OrderConfig, [NoRun EXCEPT !.phase = "events",
                                               !.lastTs = OrderConfig.startTimeNs])
    /\ InitPuller

OrderEvent == MatchedLogEventAnyOrder(OrderTimes, Keys)
OrderDump == DumpReport(OrderDumpTimes)

NextOrder ==
    \/ OrderEvent
    \/ OrderDump

SpecOrder == InitOrder /\ [][NextOrder]_vars

(***************************************************************************)
(* SpecSlot: a producer created 20 s after its time base, with a sliced    *)
(* condition, that receives events in any order and dumps at instants not  *)
(* before the calls made so far.                                           *)
(***************************************************************************)
SlotTimes == {6, 10, 18, 42}           \* timestamps of the events
SlotDumpTimes == {18}                   \* instants of the dumps
SlotConfig == [OrderConfig EXCEPT !.conditionIndex = 0, !.conditionSliced = TRUE]

InitSlot ==
    /\ InitProducer(SlotConfig, NoRun)
    /\ InitPuller

SlotEvent == MatchedLogEventAnyOrder(SlotTimes, {"x"})
SlotDump == DumpReport(SlotDumpTimes)

NextSlot ==
    \/ SlotEvent
    \/ SlotDump

SpecSlot == InitSlot /\ [][NextSlot]_vars

(***************************************************************************)
(* SpecTrig: a count producer with activations and an anomaly tracker      *)
(* whose methods are called directly: matched events of any timestamp,     *)
(* activations, cancellations and expiry checks at non-decreasing          *)
(* instants.                                                               *)
(***************************************************************************)
TrigEventTimes == {0, 22, 30}
TrigConfig == [ActConfig EXCEPT !.timeBaseNs = 2, !.startTimeNs = 2, !.anomalyTrackers = 1]

InitTrig ==
    /\ InitProducer(TrigConfig, NoRun)
    /\ InitPuller

TrigEvent == MatchedLogEventAnyOrder(TrigEventTimes, ActKeys)

\* MetricProducer::activate; lastOp.op tells the kind of the activation triggered.
TrigActivate ==
    \E ts \in ActTimes, i \in ActivationIndices :
        /\ ActStep(activateLocked(P, i, ts), ts, mEventActivationMap[i].activationType)
        /\ UNCHANGED snapshot

\* MetricProducer::cancelEventActivation
TrigCancel ==
    \E i \in DeactivationIndices :
        ActStep(cancelEventActivationLocked(P, i), clock, "cancel") /\ UNCHANGED snapshot

NextTrig ==
    \/ TrigEvent
    \/ TrigActivate
    \/ TrigCancel
    \/ ActFlushIfExpire

SpecTrig == InitTrig /\ [][NextTrig]_vars

(***************************************************************************)
(* SpecAgain: the producer of SpecTrig, where each call of activate is     *)
(* recorded with the activation it found.                                  *)
(***************************************************************************)
AgainActivate ==
    \E ts \in ActTimes, i \in ActivationIndices :
        LET q == activateLocked(P, i, ts)
        IN /\ ts >= clock
           /\ clock' = ts
           /\ Within(q)
           /\ Commit(q)
           /\ lastUpdate' = LastUpdateAfter(q, ts)
           /\ lastOp' = [op |-> mEventActivationMap[i].activationType, index |-> i,
                         found |-> mEventActivationMap[i], wasActive |-> mIsActive]
           /\ passed' = PassedAfter(q, "none")
           /\ report' = EmptyReport
           /\ UNCHANGED <<run, pullVars, snapshot>>

NextAgain ==
    \/ TrigEvent
    \/ AgainActivate
    \/ TrigCancel
    \/ ActFlushIfExpire

SpecAgain == InitTrig /\ [][NextAgain]_vars

(***************************************************************************)
(* SpecCancel: the producer of SpecTrig with two deactivation matchers,    *)
(* one listing both activations and one listing only the activation on     *)
(* boot; deactivations are also tried with a matcher index that has no     *)
(* entry.                                                                  *)
(***************************************************************************)
CancelIndices == {2, 3, 4}
CancelConfig ==
    [TrigConfig EXCEPT !.eventDeactivationMap = [i \in {2, 3} |-> IF i = 2 THEN {0, 1} ELSE {1}]]
CancelCall(i) == [op |-> "cancel", index |-> i]

InitCancel ==
    /\ InitProducer(CancelConfig, NoRun)
    /\ InitPuller

\* MetricProducer::cancelEventActivation; lastOp tells the index of the matcher.
CancelEventActivation ==
    \E i \in CancelIndices :
        LET q == cancelEventActivationLocked(P, i)
        IN /\ Within(q)
           /\ Commit(q)
           /\ lastUpdate' = LastUpdateAfter(q, clock)
           /\ lastOp' = CancelCall(i)
           /\ passed' = PassedAfter(q, "none")
           /\ report' = EmptyReport
           /\ UNCHANGED <<clock, run, pullVars, snapshot>>

NextCancel ==
    \/ TrigEvent
    \/ TrigActivate
    \/ CancelEventActivation
    \/ ActFlushIfExpire

SpecCancel == InitCancel /\ [][NextCancel]_vars

(***************************************************************************)
(* SpecBoot: the producer of SpecTrig whose active-metric snapshot is      *)
(* written for one of the dump reasons and loaded later, by the same       *)
(* producer or by the one constructed after a restart of the process.      *)
(* The snapshot remembers the reason it was written for and the            *)
(* states of the activations it was written from.                          *)
(***************************************************************************)
BootTimes == {10, 30}

BootSave ==
    \E ts \in BootTimes, reason \in DumpReportReasons :
        /\ ActStep(P, ts, "save")
        /\ snapshot' = [saved |-> TRUE, at |-> ts, reason |-> reason,
                        from |-> [i \in DOMAIN mEventActivationMap |->
                                    mEventActivationMap[i].state],
                        activeMetric |-> writeActiveMetricToProtoOutputStream(P, ts, reason)]

\* The process restarts: the producer is constructed anew from its configuration.
BootRestart ==
    /\ snapshot.saved
    /\ lastOp.op # "restart"
    /\ ActStep(NewCountMetricProducer(TrigConfig), clock, "restart")
    /\ UNCHANGED snapshot

BootLoad ==
    \E ts \in BootTimes :
        /\ snapshot.saved
        /\ ActStep(loadActiveMetricLocked(P, snapshot.activeMetric, ts), ts, "load")
        /\ UNCHANGED snapshot

NextBoot ==
    \/ TrigActivate
    \/ TrigCancel
    \/ ActFlushIfExpire
    \/ BootSave
    \/ BootRestart
    \/ BootLoad

SpecBoot == InitTrig /\ [][NextBoot]_vars

(***************************************************************************)
(* SpecSched: the schedule of the pull manager.  Receivers register,       *)
(* unregister, expire and change their need for pulls, and the alarm fires *)
(* late, at the very instant a pull is due, and whole intervals after it.  *)
(***************************************************************************)
SchedAlarmTimes == {12, 13, 24}
SchedNextPullTimes == {12, 24}

SchedRegisterReceiver == RegisterReceiverAt(SchedNextPullTimes)

SchedOnAlarmFired == AlarmFiredAt(SchedAlarmTimes)

NextSched ==
    \/ SchedRegisterReceiver
    \/ PullUnRegisterReceiver
    \/ ReceiverChanges
    \/ SchedOnAlarmFired

SpecSched == InitPull /\ [][NextSched]_vars

(***************************************************************************)
(* SpecPuller: the pullers of the pull manager.  Pull callbacks and uid    *)
(* providers are registered and unregistered, producers pull, and the      *)
(* alarm pulls for the registered receivers.                               *)
(***************************************************************************)
NextPuller ==
    \/ PullAtomCallbackChanges
    \/ PullUidProviderChanges
    \/ PullPull
    \/ PullRegisterReceiver
    \/ PullOnAlarmFired

SpecPuller == InitPull /\ [][NextPuller]_vars

(***************************************************************************)
(* SpecLock: the alarm thread, the event router and a dump thread take and *)
(* release the pull manager's mutex and the producers' mutexes as their    *)
(* programs say; a std::mutex is taken only when no thread holds it.       *)
(***************************************************************************)
Holds(t, mutex) == \E i \in 1..Len(heldLocks[t]) : heldLocks[t][i] = mutex
Free(mutex) == \A t \in Threads : ~Holds(t, mutex)

ThreadStep(t) ==
    LET step == Programs[t][threadPc[t]]
    IN /\ \/ /\ step.do = "lock"
             /\ Free(step.mutex)
             /\ heldLocks' = [heldLocks EXCEPT ![t] = Append(@, step.mutex)]
          \/ /\ step.do = "unlock"
             /\ heldLocks' = [heldLocks EXCEPT ![t] = SubSeq(@, 1, Len(@) - 1)]
       /\ threadPc' = [threadPc EXCEPT ![t] = IF @ = Len(Programs[t]) THEN 1 ELSE @ + 1]
       /\ UNCHANGED <<cfgVars, prodVars, ioVars, obsVars, mReceivers, mNextPullTimeNs,
                      kAllPullAtomInfo, mPullUidProviders, mStatsCompanionService,
                      receiverState, alarmCalls, lastAlarm, crashed, stats>>

NextLock == \E t \in Threads : ThreadStep(t)

SpecLock == InitPull /\ [][NextLock]_vars

(***************************************************************************)
(* SpecClamp: count producers are constructed from configurations whose    *)
(* max_dimensions_per_bucket ranges around 0 and around both ends of the   *)
(* hard-limit range.                                                       *)
(***************************************************************************)
ClampMargin == 20
ClampLimits ==
    UNION {(b - ClampMargin)..(b + ClampMargin) :
               b \in {0, kDimensionKeySizeHardLimitMin, kDimensionKeySizeHardLimitMax}}

\* CountMetricProducer::CountMetricProducer: a new producer replaces the one before.
Construct(c) ==
    LET q == NewCountMetricProducer(c)
    IN /\ mTimeBaseNs' = q.mTimeBaseNs
       /\ mConditionTrackerIndex' = q.mConditionTrackerIndex
       /\ mConditionSliced' = q.mConditionSliced
       /\ mUploadThreshold' = q.mUploadThreshold
       /\ mAnomalyTrackers' = q.mAnomalyTrackers
       /\ mDimensionHardLimit' = q.mDimensionHardLimit
       /\ mSplitBucketForAppUpgrade' = q.mSplitBucketForAppUpgrade
       /\ mShardCount' = q.mShardCount
       /\ mEventDeactivationMap' = q.mEventDeactivationMap
       /\ mCurrentBucketStartTimeNs' = q.mCurrentBucketStartTimeNs
       /\ mCurrentBucketNum' = q.mCurrentBucketNum
       /\ mCondition' = q.mCondition
       /\ mConditionTimer' = q.mConditionTimer
       /\ mCurrentSlicedCounter' = q.mCurrentSlicedCounter
       /\ mCurrentFullCounters' = q.mCurrentFullCounters
       /\ mPastBuckets' = q.mPastBuckets
       /\ mBulkCounter' = q.mBulkCounter
       /\ mBulkPastBuckets' = q.mBulkPastBuckets
       /\ mDimensionGuardrailHit' = q.mDimensionGuardrailHit
       /\ mHasHitGuardrail' = q.mHasHitGuardrail
       /\ mIsActive' = q.mIsActive
       /\ mEventActivationMap' = q.mEventActivationMap
       /\ addPastBucketCalls' = q.addPastBucketCalls
       /\ lastAnomalyCheck' = q.lastAnomalyCheck
       /\ hardLimitReachedCount' = q.hardLimitReachedCount
       /\ activeStateCalls' = q.activeStateCalls
       /\ report' = EmptyReport
       /\ snapshot' = NoSnapshot
       /\ clock' = c.startTimeNs
       /\ lastOp' = [op |-> "construct",
                     max_dimensions_per_bucket |-> c.max_dimensions_per_bucket]
       /\ passed' = EmptyMap
       /\ lastUpdate' = EmptyMap
       /\ UNCHANGED <<run, pullVars>>

InitClamp ==
    /\ InitProducer(PlainConfig, NoRun)
    /\ InitPuller

ClampConstruct ==
    \E limit \in ClampLimits :
        Construct([PlainConfig EXCEPT !.max_dimensions_per_bucket = limit])

NextClamp == ClampConstruct

SpecClamp == InitClamp /\ [][NextClamp]_vars

(***************************************************************************)
(* SpecUpgrade: matched events, app-upgrade notifications and dumps at     *)
(* non-decreasing instants on count producers with and without             *)
(* split_bucket_for_app_upgrade.  run.step follows the app-upgrade         *)
(* scenario: bucket of 60 s, event at 10 s, upgrade at 30 s, event at      *)
(* 50 s, dump at 120 s.                                                    *)
(***************************************************************************)
UpgradeTimes == {2, 6, 10, 24}
UpgradeKeys == {"x"}

UpgradeScenario ==
    << [op |-> "event", ts |-> 2], [op |-> "upgrade", ts |-> 6],
       [op |-> "event", ts |-> 10], [op |-> "dump", ts |-> 24] >>

UpgradeConfigs ==
    {[c EXCEPT !.splitBucketForAppUpgrade = split] : c \in CountConfigs, split \in BOOLEAN}

InitUpgrade ==
    /\ \E c \in UpgradeConfigs : InitProducer(c, [NoRun EXCEPT !.step = 0])
    /\ InitPuller

\* One call on the producer: q is the producer after it, out what it wrote to the report.
UpgradeCall(q, call, key, out) ==
    /\ call.ts >= clock
    /\ clock' = call.ts
    /\ Within(q)
    /\ Commit(q)
    /\ lastUpdate' = LastUpdateAfter(q, call.ts)
    /\ lastOp' = call
    /\ passed' = PassedAfter(q, key)
    /\ run' = [run EXCEPT !.step = IF /\ @ >= 0
                                      /\ @ < Len(UpgradeScenario)
                                      /\ UpgradeScenario[@ + 1] = call
                                     THEN @ + 1 ELSE -1]
    /\ report' = out
    /\ UNCHANGED <<snapshot, pullVars>>

UpgradeEvent ==
    \E ts \in UpgradeTimes, key \in UpgradeKeys :
        LET event == [ts |-> ts, key |-> key, sampleHash |-> 0, sliceQuery |-> "kTrue"]
        IN UpgradeCall(onMatchedLogEventLocked(P, event), [op |-> "event", ts |-> ts], key,
                       EmptyReport)

UpgradeNotify ==
    \E ts \in UpgradeTimes :
        UpgradeCall(notifyAppUpgrade(P, ts), [op |-> "upgrade", ts |-> ts], "none", EmptyReport)

UpgradeDump ==
    \E ts \in UpgradeTimes, include_current_partial_bucket \in BOOLEAN, erase_data \in BOOLEAN :
        LET r == onDumpReportLocked(P, ts, include_current_partial_bucket, erase_data)
        IN UpgradeCall(r.p, [op |-> "dump", ts |-> ts], "none", r.out)

NextUpgrade ==
    \/ UpgradeEvent
    \/ UpgradeNotify
    \/ UpgradeDump

SpecUpgrade == InitUpgrade /\ [][NextUpgrade]_vars

(***************************************************************************)
(* SpecStats: timestamps are noted in the histories of the statistics      *)
(* collector; the i-th entry noted in a history is i, as in the tests.  At *)
(* most two histories are in use in one run.                               *)
(***************************************************************************)
MaxNotes == 22

Noted(history) == IF stats[history] = <<>> THEN 0 ELSE stats[history][Len(stats[history])]
InUse == {h \in Histories : stats[h] # <<>>}

StatsNote ==
    \E history \in Histories :
        /\ Noted(history) < MaxNotes
        /\ Cardinality(InUse \cup {history}) <= 2
        /\ stats' = note(stats, history, Noted(history) + 1)
        /\ lastOp' = [op |-> "note", history |-> history, timeSec |-> Noted(history) + 1]
        /\ UNCHANGED <<cfgVars, prodVars, ioVars, clock, passed, run, lastUpdate,
                       mReceivers, mNextPullTimeNs, kAllPullAtomInfo, mPullUidProviders,
                       mStatsCompanionService, receiverState, alarmCalls, lastAlarm, crashed,
                       threadPc, heldLocks>>

NextStats == StatsNote

SpecStats == InitClamp /\ [][NextStats]_vars

(***************************************************************************)
(* SpecWhole: a count producer watched by one anomaly tracker receives     *)
(* matched events in timestamp order, app-upgrade notifications splitting  *)
(* its buckets; run.ev counts the events of each key by full bucket.       *)
(***************************************************************************)
WholeTimes == {2, 6, 12, 14, 26}

InitWhole ==
    /\ InitProducer(AnomalyConfig, [NoRun EXCEPT !.phase = "events"])
    /\ InitPuller

WholeEvent == MatchedLogEvent(WholeTimes, {"x"}, {})

WholeNotify ==
    \E ts \in WholeTimes :
        ActStep(notifyAppUpgrade(P, ts), ts, "upgrade") /\ UNCHANGED snapshot

NextWhole ==
    \/ WholeEvent
    \/ WholeNotify

SpecWhole == InitWhole /\ [][NextWhole]_vars

(***************************************************************************)
(* SpecWell: matched events and dumps whose times are in no order: a dump  *)
(* may carry a time equal to or before the start of the current bucket.    *)
(***************************************************************************)
WellTimes == {2, 14}

\* onDumpReportLocked for a dump of any time, earlier than the calls before it or not.
DumpReportAnyOrder(T) ==
    \E ts \in T, include_current_partial_bucket \in BOOLEAN, erase_data \in BOOLEAN :
        LET r == onDumpReportLocked(P, ts, include_current_partial_bucket, erase_data)
        IN /\ clock' = IF ts > clock THEN ts ELSE clock
           /\ Within(r.p)
           /\ Commit(r.p)
           /\ lastUpdate' = LastUpdateAfter(r.p, ts)
           /\ report' = r.out
           /\ lastOp' = [op |-> "dump", partial |-> include_current_partial_bucket,
                         erase |-> erase_data, flushed |-> TRUE, afterDrop |-> FALSE,
                         ts |-> ts]
           /\ passed' = PassedAfter(r.p, "none")
           /\ UNCHANGED <<run, snapshot, pullVars>>

WellEvent == MatchedLogEventAnyOrder(WellTimes, {"x"})
WellDump == DumpReportAnyOrder(WellTimes)

NextWell ==
    \/ WellEvent
    \/ WellDump

SpecWell == InitClamp /\ [][NextWell]_vars

(***************************************************************************)
(* Properties of the count producer.                                       *)
(***************************************************************************)
\* C1: whatever matched events, flushes, drops and dumps a count producer handles, its
\* current bucket number never decreases.
C1_BucketNumNeverDecreases == [][mCurrentBucketNum' >= mCurrentBucketNum]_vars

\* A call that moved the producer two buckets forward at once.
C1_Witness == mCurrentBucketNum = 2 /\ mCurrentBucketStartTimeNs = 24 /\ lastOp.flushed

\* The entries stored / reported for a key, as (bucket number, count) pairs.
EntryOfBucket(b) == [bucket |-> BucketOf(b.mBucketStartNs), count |-> b.mCount]
StoreEntries(k) ==
    IF Has(mPastBuckets, k)
      THEN [i \in 1..Len(mPastBuckets[k]) |-> EntryOfBucket(mPastBuckets[k][i])]
      ELSE <<>>
EntryOfInfo(e) ==
    [bucket |-> IF e.partial THEN BucketOf(e.start) ELSE e.bucket_num, count |-> e.count]
ReportEntries(k) ==
    IF Has(report.data, k)
      THEN [i \in 1..Len(report.data[k]) |-> EntryOfInfo(report.data[k][i])]
      ELSE <<>>

\* The buckets of the run that received an event of a key, in bucket order, each with the
\* number of events of the key whose timestamp fell in it.
RECURSIVE InBucketOrder(_)
InBucketOrder(m) ==
    IF DOMAIN m = {} THEN <<>>
    ELSE LET b == CHOOSE x \in DOMAIN m : \A y \in DOMAIN m : x <= y
         IN <<[bucket |-> b, count |-> m[b]]>> \o InBucketOrder([y \in (DOMAIN m) \ {b} |-> m[y]])
ExpectedEntries(k) == InBucketOrder(Get0Map(run.ev, k))

\* The dump reaches every bucket that received an event.
DumpCoversRun ==
    \/ lastOp.partial
    \/ \A k \in DOMAIN run.ev : \A b \in DOMAIN run.ev[k] :
          clock >= mTimeBaseNs + (b + 1) * BucketSizeNs

\* C3 as stated: after matched events and a dump, the store of each key holds one entry per
\* bucket that received an event, with the number of events of that bucket, in bucket order.
C3_StoreAfterAnyDump ==
    run.phase = "dumped" => \A k \in Keys : StoreEntries(k) = ExpectedEntries(k)

\* C3 (amended): when the events came in timestamp order, none was dropped by the dimension
\* guardrail and the dump either includes the partial bucket or is made at or after the end
\* of the last bucket that received an event, the report holds for each key one entry per
\* bucket that received an event, with the number of events of that bucket, in bucket
\* order, and so does the store when the dump does not erase it.
C3_ReportAfterCoveringDump ==
    (run.phase = "dumped" /\ hardLimitReachedCount = 0 /\ DumpCoversRun)
        => \A k \in Keys :
              /\ ReportEntries(k) = ExpectedEntries(k)
              /\ ~lastOp.erase => StoreEntries(k) = ExpectedEntries(k)

\* Events at 10 s, 20 s, 70 s and a dump at 120 s: [{bucket 0, count 2}, {bucket 1, count 1}].
C3_Witness ==
    /\ run.phase = "dumped" /\ clock = 24
    /\ Has(run.ev, "x") /\ run.ev["x"] = [b \in {0, 1} |-> IF b = 0 THEN 2 ELSE 1]
    /\ ReportEntries("x") = <<[bucket |-> 0, count |-> 2], [bucket |-> 1, count |-> 1]>>
    /\ ~lastOp.partial /\ ~lastOp.erase

\* The last call was a dump made at the instant of a drop, right after it.
DumpRightAfterDrop == lastOp.op = "dump" /\ lastOp.afterDrop

ReportIsEmpty == DOMAIN report.data = {} /\ report.bulk = 0

\* C5 as stated: a dump right after a drop at the same instant emits no past bucket,
\* whatever the dump's arguments and the current counters.
C5_NothingAfterDrop == DumpRightAfterDrop => ReportIsEmpty

\* C5 (amended): a dump right after a drop at the same instant emits no past bucket when it
\* does not include the current partial bucket; when it includes it, the only entries it
\* emits are those of the current bucket, closed at the dump time.
C5_NothingOlderAfterDrop ==
    DumpRightAfterDrop =>
        /\ ~lastOp.partial => ReportIsEmpty
        /\ \A k \in DOMAIN report.data :
              /\ Len(report.data[k]) = 1
              /\ report.data[k][1].partial /\ report.data[k][1].end = clock

\* A drop that discarded stored buckets, followed at once by a dump without the partial
\* bucket while the current bucket holds counts.
C5_Witness ==
    /\ DumpRightAfterDrop /\ ~lastOp.partial /\ ReportIsEmpty
    /\ mCurrentSlicedCounter # EmptyMap /\ mCurrentBucketNum > 0

\* C2 as stated: the counter of every key equals the number of events of the key that were
\* matched, passed the sampling check and had a true condition since the bucket was opened.
C2_CounterIsPassedEvents ==
    \A k \in Keys : Get0(mCurrentSlicedCounter, k) = PassedOf(passed, k).n

\* C2 (amended): the counter of every key equals the number of events of the key that were
\* matched, passed the sampling check, had a true condition and were not dropped by the
\* dimension guardrail since the bucket was opened.
C2_CounterIsKeptEvents ==
    \A k \in Keys : Get0(mCurrentSlicedCounter, k) = PassedOf(passed, k).n - PassedOf(passed, k).d

\* One key counted twice while an event of the other key was dropped at the hard limit.
C2_Witness ==
    /\ \E k \in Keys : Get0(mCurrentSlicedCounter, k) = 2
    /\ \E k \in Keys : PassedOf(passed, k).d = 1 /\ ~Has(mCurrentSlicedCounter, k)
    /\ CounterSize(P) = mDimensionHardLimit

\* The run has followed the condition scenario to its end, the dump at 120 s.
ScenarioDone == run.step = Len(Scenario)

\* C4 as stated: the scenario reports [{bucket 0, count 2}, {bucket 1, count 1}] with the
\* condition true for 30 s in bucket 0 and 5 s in bucket 1.
C4_TwoBucketsReported ==
    ScenarioDone =>
        /\ ReportEntries("x") = <<[bucket |-> 0, count |-> 2], [bucket |-> 1, count |-> 1]>>
        /\ report.data["x"][1].condition_true_ns = 6
        /\ report.data["x"][2].condition_true_ns = 1

\* C4 (amended): the scenario reports [{bucket 0, count 2}] with the condition true for 30 s
\* in bucket 0, and nothing for bucket 1: the events at 70 s and 80 s arrive while the
\* condition is false.
C4_OneBucketReported ==
    ScenarioDone =>
        /\ DOMAIN report.data = {"x"}
        /\ report.data["x"] = <<[partial |-> FALSE, bucket_num |-> 0, count |-> 2,
                                 condition_true_ns |-> 6]>>

C4_Witness == ScenarioDone /\ lastOp.op = "dump" /\ clock = 24 /\ Has(report.data, "x")

\* C6: after any call that ran flushIfNeededLocked at time T, every anomaly tracker has
\* received exactly n bucket-end notifications, n the number of whole buckets from the
\* time base to T.
C6_OneNotificationPerBucket ==
    (mAnomalyTrackers > 0 /\ lastOp.flushed)
        => Len(addPastBucketCalls) = CDiv(clock - mTimeBaseNs, BucketSizeNs)

\* The saved activations the load applied as active ones, loaded before their remaining
\* time to live had passed since the save.
LoadedInTime ==
    {i \in (DOMAIN snapshot.activeMetric) \cap (DOMAIN mEventActivationMap) :
        /\ snapshot.activeMetric[i].has_state /\ snapshot.activeMetric[i].state = "ACTIVE"
        /\ clock - snapshot.at < snapshot.activeMetric[i].remaining_ttl_nanos}

\* C8 as stated: an activation saved as active at t with remaining_ttl and loaded at t + d,
\* d < remaining_ttl, leaves the metric active with start_ns + ttl_ns = t + remaining_ttl
\* and ttl_ns unchanged.
C8_ExpiryInstantPreserved ==
    lastOp.op = "load" =>
        \A i \in LoadedInTime :
            /\ mIsActive
            /\ mEventActivationMap[i].start_ns + mEventActivationMap[i].ttl_ns
                   = snapshot.at + snapshot.activeMetric[i].remaining_ttl_nanos
            /\ mEventActivationMap[i].ttl_ns = ActConfig.eventActivationMap[i].ttl_ns

\* C8 (amended): such a load leaves the metric active with start_ns + ttl_ns equal to the
\* load time t + d plus remaining_ttl (the remaining time to live counts from the load),
\* and ttl_ns unchanged.
C8_RemainingTtlPreserved ==
    lastOp.op = "load" =>
        \A i \in LoadedInTime :
            /\ mIsActive
            /\ mEventActivationMap[i].state = "kActive"
            /\ mEventActivationMap[i].start_ns + mEventActivationMap[i].ttl_ns
                   = clock + snapshot.activeMetric[i].remaining_ttl_nanos
            /\ mEventActivationMap[i].ttl_ns = ActConfig.eventActivationMap[i].ttl_ns

\* An activation started at 10 s with 100 s to live, saved at 50 s with 60 s left and loaded
\* at 70 s: it now expires at 130 s.
C8_Witness ==
    /\ lastOp.op = "load" /\ 0 \in LoadedInTime /\ mIsActive
    /\ snapshot.at = 10 /\ clock = 14 /\ snapshot.activeMetric[0].remaining_ttl_nanos = 12
    /\ mEventActivationMap[0].start_ns = 6

\* Some activation is Active and the instant `now' is before (at or before) its expiry.
ActiveBefore(now) ==
    \E i \in DOMAIN mEventActivationMap :
        /\ mEventActivationMap[i].state = "kActive"
        /\ now < mEventActivationMap[i].start_ns + mEventActivationMap[i].ttl_ns
ActiveUntil(now) ==
    \E i \in DOMAIN mEventActivationMap :
        /\ mEventActivationMap[i].state = "kActive"
        /\ now <= mEventActivationMap[i].start_ns + mEventActivationMap[i].ttl_ns

\* C9 as stated: after flushIfExpire(now) the metric is active iff it has no activation or
\* some activation is Active with now < start_ns + ttl_ns.
C9_ActiveIffBeforeExpiry ==
    lastOp.op = "expire" => (mIsActive <=> (DOMAIN mEventActivationMap = {} \/ ActiveBefore(clock)))

\* C9 (amended): after flushIfExpire(now) the metric is active iff it has no activation or
\* some activation is Active with now <= start_ns + ttl_ns; at now = start_ns + ttl_ns the
\* metric is still active.
C9_ActiveIffNotPastExpiry ==
    lastOp.op = "expire" => (mIsActive <=> (DOMAIN mEventActivationMap = {} \/ ActiveUntil(clock)))

\* An evaluation exactly at the expiry instant of the only Active activation.
C9_Witness ==
    /\ lastOp.op = "expire" /\ mIsActive
    /\ mEventActivationMap[0].state = "kActive"
    /\ clock = mEventActivationMap[0].start_ns + mEventActivationMap[0].ttl_ns
    /\ mEventActivationMap[1].state # "kActive"

\* C10: an evaluation at a time <= start_ns + ttl_ns leaves an Active activation Active and
\* one at a later time makes it NotActive; a matched event is counted iff, at its time, some
\* activation is Active and not past start_ns + ttl_ns.
C10_TtlDecay ==
    [][/\ lastOp'.op = "expire" =>
            \A i \in DOMAIN mEventActivationMap :
                mEventActivationMap[i].state = "kActive" =>
                    mEventActivationMap'[i].state =
                        IF clock' > mEventActivationMap[i].start_ns + mEventActivationMap[i].ttl_ns
                          THEN "kNotActive" ELSE "kActive"
       /\ lastOp'.op = "event" =>
            \A k \in ActKeys :
                Has(mCurrentSlicedCounter', k)
                    <=> \E i \in DOMAIN mEventActivationMap :
                           /\ mEventActivationMap[i].state = "kActive"
                           /\ clock' <= mEventActivationMap[i].start_ns
                                            + mEventActivationMap[i].ttl_ns]_vars

\* Activation at 10 s with a time to live of 100 s: the event at 50 s was counted, the one
\* at 150 s found the activation expired and was dropped.
C10_Witness ==
    /\ lastOp.op = "event" /\ clock = 30 /\ ~mIsActive
    /\ mEventActivationMap[0] = [ActConfig.eventActivationMap[0] EXCEPT
                                    !.start_ns = 2, !.state = "kNotActive"]
    /\ mCurrentSlicedCounter = EmptyMap
    /\ Has(mPastBuckets, "x") /\ Len(mPastBuckets["x"]) = 1 /\ mPastBuckets["x"][1].mCount = 1

\* C7: when the alarm fires twice at the same time with no receiver registered or
\* unregistered in between, the second firing dispatches no pull and delivers no data to any
\* receiver.
C7_SecondAlarmPullsNothing ==
    lastAlarm.repeat => lastAlarm.pulledKeys = {} /\ lastAlarm.withData = {}

\* Interval of 60 s and next pull at 60 s: the alarm at 65 s pulled once and moved the next
\* pull to 120 s, the alarm at 65 s again found nothing to pull.
C7_Witness ==
    /\ lastAlarm.repeat /\ lastAlarm.ts = 13 /\ lastAlarm.before /\ ~crashed
    /\ Has(mReceivers, "c1") /\ Len(mReceivers["c1"]) = 1
    /\ mReceivers["c1"][1].intervalNs = 12 /\ mReceivers["c1"][1].nextPullTimeNs = 24
    /\ receiverState[mReceivers["c1"][1].receiver].alive
    /\ receiverState[mReceivers["c1"][1].receiver].pullNeeded
\* The distinct keys that arrived with a passing event since the current bucket was opened:
\* those of Keys, and the keys of a burst.
ArrivedKeys ==
    Cardinality({k \in Keys : PassedOf(passed, k).n > 0})
        + (IF mBulkCounter.n > 0 THEN BurstSize ELSE 0)

\* C11: the counter map of the current bucket never holds more keys than the dimension hard
\* limit L; while at most L distinct keys have arrived in the bucket all of them are
\* retained, and once more than L have arrived exactly L are retained, each key of Keys that
\* is retained with the count of its events, and every event of a key that was left out
\* was dropped.
C11_AtMostHardLimitKeys ==
    /\ CounterSize(P) <= mDimensionHardLimit
    /\ CounterSize(P) = IF ArrivedKeys <= mDimensionHardLimit THEN ArrivedKeys
                        ELSE mDimensionHardLimit
    /\ \A k \in Keys :
          IF Has(mCurrentSlicedCounter, k)
            THEN mCurrentSlicedCounter[k] = PassedOf(passed, k).n /\ PassedOf(passed, k).d = 0
            ELSE PassedOf(passed, k).d = PassedOf(passed, k).n

\* A burst of fresh keys and one key of Keys filled the map to the hard limit; the event of
\* the other key, the one key too many, was dropped.
C11_Witness ==
    /\ mBulkCounter.n = BurstSize /\ CounterSize(P) = mDimensionHardLimit
    /\ ArrivedKeys = mDimensionHardLimit + 1
    /\ \E k \in Keys : Has(mCurrentSlicedCounter, k) /\ mCurrentSlicedCounter[k] = 1
    /\ \E k \in Keys : ~Has(mCurrentSlicedCounter, k) /\ PassedOf(passed, k) = [n |-> 1, d |-> 1]
    /\ mDimensionGuardrailHit /\ hardLimitReachedCount = 1

\* An event of a key of Keys that is not in the counter map arrives, with a true condition,
\* while the map holds hard-limit many keys and the bucket stays open.
NewKeyAtHardLimit(k) ==
    /\ CounterSize(P) = mDimensionHardLimit
    /\ ~Has(mCurrentSlicedCounter, k)
    /\ mCurrentBucketNum' = mCurrentBucketNum
    /\ PassedOf(passed', k).n = PassedOf(passed, k).n + 1

\* Such an event is dropped and sets the guardrail flags.
DroppedAtHardLimit ==
    /\ mCurrentSlicedCounter' = mCurrentSlicedCounter
    /\ mBulkCounter' = mBulkCounter
    /\ mDimensionGuardrailHit' /\ mHasHitGuardrail'

\* C12 as stated: a new key at the hard limit is dropped and sets dimension_guardrail_hit,
\* and the hard limit is reported once per bucket: the first such event of the bucket raises
\* the telemetry counter by one, the further ones leave it as it is.
C12_TelemetryOncePerBucket ==
    [][\A k \in Keys :
          NewKeyAtHardLimit(k) =>
              /\ DroppedAtHardLimit
              /\ hardLimitReachedCount' =
                     IF mHasHitGuardrail THEN hardLimitReachedCount
                     ELSE hardLimitReachedCount + 1]_vars

\* C12 (amended): a new key at the hard limit is dropped and sets dimension_guardrail_hit,
\* and every such dropped event raises the telemetry counter by one (only the error log is
\* written once per bucket).
C12_TelemetryPerDroppedEvent ==
    [][\A k \in Keys :
          NewKeyAtHardLimit(k) =>
              /\ DroppedAtHardLimit
              /\ hardLimitReachedCount' = hardLimitReachedCount + 1]_vars

\* Two events of one new key were dropped in the same bucket: two reports of the hard limit.
C12_Witness ==
    /\ mHasHitGuardrail /\ mDimensionGuardrailHit /\ hardLimitReachedCount = 2
    /\ \E k \in Keys : PassedOf(passed, k) = [n |-> 2, d |-> 2]
    /\ CounterSize(P) = mDimensionHardLimit
\* The bucket number a stored bucket belongs to, and whether it spans that whole bucket.
NumberOf(b) == BucketOf(b.mBucketStartNs)
IsWholeBucket(b) == b.mBucketEndNs - b.mBucketStartNs = BucketSizeNs

StoreIsEmpty == DOMAIN mPastBuckets = {} /\ mBulkPastBuckets = 0

\* C15 as stated: after a dump with erase_data the past-bucket store is empty and the
\* dimension guardrail flag is false, whatever the state the dump is called in.
C15_EraseClearsStoreAndFlag ==
    (lastOp.op = "dump" /\ lastOp.erase) => (StoreIsEmpty /\ ~mDimensionGuardrailHit)

\* C15 (amended): after a dump with erase_data the past-bucket store is empty; the dimension
\* guardrail flag is false when the dump had buckets to report, and is left as it was when
\* the store was empty at the dump (nothing is reported then, the flag included).
C15_EraseClearsReportedFlag ==
    [][(lastOp'.op = "dump" /\ lastOp'.erase) =>
          /\ StoreIsEmpty'
          /\ mDimensionGuardrailHit' = IF ReportIsEmpty' THEN mDimensionGuardrailHit
                                       ELSE FALSE]_vars

\* A dump with erase_data reported buckets together with the guardrail flag and cleared both.
C15_Witness ==
    /\ lastOp.op = "dump" /\ lastOp.erase
    /\ ~ReportIsEmpty /\ report.guardrail_hit
    /\ StoreIsEmpty /\ ~mDimensionGuardrailHit
\* The bounds the claim puts on the last update of every retained aggregate.
LastUpdatesInBucket ==
    \A k \in DOMAIN mCurrentSlicedCounter :
        /\ mCurrentBucketStartTimeNs <= lastUpdate[k]
        /\ lastUpdate[k] <= mCurrentBucketStartTimeNs + BucketSizeNs

\* C14 as stated: after any matched events with timestamps >= time_base_ns, the last event
\* that updated a retained aggregate has bucket_start <= timestamp <= bucket_start +
\* bucket_size.
C14_LastUpdateInBucket == (lastOp.op = "event" \/ lastOp = NoOp) => LastUpdatesInBucket

\* C14 (amended): the same bounds hold after matched events that came in non-decreasing
\* timestamp order, the first of them not before the start of the producer's first bucket.
C14_LastUpdateInBucketInOrder == run.phase = "events" => LastUpdatesInBucket

\* Two events at 50 s and then, in order, one at 90 s in the next bucket, which starts at
\* 80 s.
C14_Witness ==
    /\ run.phase = "events" /\ lastOp.op = "event" /\ lastOp.ts = 18
    /\ mCurrentBucketStartTimeNs = 16 /\ mCurrentBucketNum = 1
    /\ Has(mCurrentSlicedCounter, lastOp.key) /\ lastUpdate[lastOp.key] = 18
    /\ Has(mPastBuckets, lastOp.key) /\ mPastBuckets[lastOp.key][1].mCount = 2

\* The call is a matched event that is not older than the time base but older than the start
\* of the current bucket.
OlderThanBucket ==
    /\ lastOp'.op = "event"
    /\ lastOp'.ts >= mTimeBaseNs
    /\ lastOp'.ts < mCurrentBucketStartTimeNs

\* C17: a matched event with time_base_ns <= timestamp < current bucket start is counted in
\* the current bucket: the counter of its key goes up by one, the bucket keeps its start and
\* number, and the past-bucket store is left exactly as it was.
C17_OldEventCountsInCurrentBucket ==
    [][OlderThanBucket =>
          /\ mCurrentSlicedCounter' =
                 Put(mCurrentSlicedCounter, lastOp'.key,
                     Get0(mCurrentSlicedCounter, lastOp'.key) + 1)
          /\ mCurrentBucketStartTimeNs' = mCurrentBucketStartTimeNs
          /\ mCurrentBucketNum' = mCurrentBucketNum
          /\ mPastBuckets' = mPastBuckets]_vars

\* With bucket 0 stored and bucket 1 running since 80 s, an event of 30 s was counted in
\* bucket 1, on top of one event already counted there.
C17_Witness ==
    /\ lastOp.op = "event" /\ lastOp.ts = 6 /\ mCurrentBucketStartTimeNs = 16
    /\ Has(mCurrentSlicedCounter, lastOp.key) /\ mCurrentSlicedCounter[lastOp.key] = 2
    /\ lastUpdate[lastOp.key] = 6
    /\ Has(mPastBuckets, lastOp.key) /\ Len(mPastBuckets[lastOp.key]) = 1
    /\ mPastBuckets[lastOp.key][1].mBucketEndNs = 16
\* What a producer holds, apart from the record of the calls its last operation made.
keptVars == <<mCurrentBucketStartTimeNs, mCurrentBucketNum, mCondition, mConditionTimer,
              mCurrentSlicedCounter, mCurrentFullCounters, mPastBuckets,
              mBulkCounter, mBulkPastBuckets, mDimensionGuardrailHit, mHasHitGuardrail,
              mIsActive, mEventActivationMap, addPastBucketCalls, hardLimitReachedCount>>

\* The call is a matched event that the common pipeline drops.
DroppedByPipeline ==
    /\ lastOp'.op = "event"
    /\ (~mIsActive \/ lastOp'.ts < mTimeBaseNs)

\* C16: a matched event that arrives while the metric is not active, or with a timestamp
\* older than the time base, changes nothing in the producer (counters, bucket start and
\* number, past buckets, flags, activations) and notifies no anomaly tracker.
C16_DroppedEventChangesNothing ==
    [][DroppedByPipeline =>
          /\ UNCHANGED keptVars
          /\ lastAnomalyCheck' = NoAnomalyCheck
          /\ activeStateCalls' = <<>>]_vars

\* A metric that was active and counted is inactive again; the event of 150 s, which would
\* have opened the bucket it falls in, was dropped.
C16_Witness ==
    /\ lastOp.op = "event" /\ lastOp.ts = 30 /\ ~mIsActive
    /\ mCurrentBucketNum < BucketOf(30)
    /\ mCurrentSlicedCounter = EmptyMap /\ DOMAIN mPastBuckets # {}
    /\ lastAnomalyCheck = NoAnomalyCheck

\* The call triggers the immediate activation (matcher index 0) of an inactive metric.
ImmediateFiresOnInactive == lastOp'.op = "ACTIVATE_IMMEDIATELY" /\ ~mIsActive

ImmediateStarted ==
    /\ mEventActivationMap'[0].start_ns = clock'
    /\ mEventActivationMap'[0].state = "kActive"
    /\ mEventActivationMap'[0].ttl_ns = mEventActivationMap[0].ttl_ns
    /\ mIsActive'

\* C18 as stated: the activation gets start_ns = now and the state Active, and
\* on_active_state_changed(now, true) is invoked while is_active is still false.
C18_CallbackBeforeFlag ==
    [][ImmediateFiresOnInactive =>
          /\ ImmediateStarted
          /\ activeStateCalls' = <<[ts |-> clock', isActive |-> TRUE, flag |-> FALSE]>>]_vars

\* C18 (amended): the activation gets start_ns = now and the state Active, is_active is set
\* to true, and then on_active_state_changed(now, true) is invoked: the call finds is_active
\* already true.
C18_FlagBeforeCallback ==
    [][ImmediateFiresOnInactive =>
          /\ ImmediateStarted
          /\ activeStateCalls' = <<[ts |-> clock', isActive |-> TRUE, flag |-> TRUE]>>]_vars

\* The immediate activation fired at 50 s on an inactive metric.
C18_Witness ==
    /\ lastOp.op = "ACTIVATE_IMMEDIATELY" /\ clock = 10 /\ mIsActive
    /\ mEventActivationMap[0].start_ns = 10 /\ mEventActivationMap[0].state = "kActive"
    /\ activeStateCalls = <<[ts |-> 10, isActive |-> TRUE, flag |-> TRUE]>>

\* C19: flush_if_expired(now) on an inactive metric changes nothing; on an active metric
\* with no activation that is Active and not past its expiry it invokes
\* on_active_state_changed(now, false) while is_active is still true and leaves is_active
\* false; on any other active metric it makes no call and leaves is_active true.
C19_CallbackBeforeInactive ==
    [][lastOp'.op = "expire" =>
          IF ~mIsActive
            THEN UNCHANGED keptVars /\ activeStateCalls' = <<>>
          ELSE IF DOMAIN mEventActivationMap # {} /\ ~ActiveUntil(clock')
            THEN /\ activeStateCalls' = <<[ts |-> clock', isActive |-> FALSE, flag |-> TRUE]>>
                 /\ ~mIsActive'
          ELSE activeStateCalls' = <<>> /\ mIsActive']_vars

\* The activation started at 10 s with 100 s to live was found expired at 150 s.
C19_Witness ==
    /\ lastOp.op = "expire" /\ clock = 30 /\ ~mIsActive
    /\ mEventActivationMap[0] = [TrigConfig.eventActivationMap[0] EXCEPT
                                    !.start_ns = 2, !.state = "kNotActive"]
    /\ activeStateCalls = <<[ts |-> 30, isActive |-> FALSE, flag |-> TRUE]>>

\* C20: triggering the activation on boot (matcher index 1) leaves is_active, every start_ns
\* and ttl_ns, the other activations and the rest of the producer as they were and makes no
\* on_active_state_changed call; the activation itself goes from NotActive to ActiveOnBoot
\* and keeps any other state.
C20_OnBootKeepsActivity ==
    [][lastOp'.op = "ACTIVATE_ON_BOOT" =>
          /\ mIsActive' = mIsActive
          /\ activeStateCalls' = <<>>
          /\ mEventActivationMap' =
                 [mEventActivationMap EXCEPT ![1].state =
                     IF @ = "kNotActive" THEN "kActiveOnBoot" ELSE @]
          /\ UNCHANGED <<mCurrentBucketStartTimeNs, mCurrentBucketNum, mCurrentSlicedCounter,
                         mPastBuckets, mConditionTimer>>]_vars

\* The activation on boot was triggered at 50 s on an inactive metric, which stays inactive.
C20_Witness ==
    /\ lastOp.op = "ACTIVATE_ON_BOOT" /\ clock = 10 /\ ~mIsActive
    /\ mEventActivationMap[1].state = "kActiveOnBoot"
    /\ mEventActivationMap[1].start_ns = 0
    /\ mEventActivationMap[0].state = "kNotActive"

\* The activations listed under a deactivation matcher; none for an index with no entry.
ListedUnder(i) == IF Has(mEventDeactivationMap, i) THEN mEventDeactivationMap[i] ELSE {}

\* C21: when the deactivation matcher of index i matches, every activation listed under i
\* is NotActive afterwards, whatever its state was, with its start_ns and ttl_ns kept, and
\* every other activation is as it was; an index with no entry changes no activation.
C21_DeactivationCancelsListed ==
    [][lastOp'.op = "cancel" =>
          mEventActivationMap' =
              [a \in DOMAIN mEventActivationMap |->
                  IF a \in ListedUnder(lastOp'.index)
                    THEN [mEventActivationMap[a] EXCEPT !.state = "kNotActive"]
                    ELSE mEventActivationMap[a]]]_vars

\* The matcher that lists only the activation on boot matched while both activations were
\* on: the activation on boot is NotActive, the immediate one is still Active.
C21_Witness ==
    /\ lastOp.op = "cancel" /\ lastOp.index = 3
    /\ mEventActivationMap[1].state = "kNotActive"
    /\ mEventActivationMap[0].state = "kActive"
    /\ mIsActive

\* The activations that were ActiveOnBoot when the snapshot was written.
SavedOnBoot == {i \in DOMAIN snapshot.from : snapshot.from[i] = "kActiveOnBoot"}
ShutdownReasons == {"DEVICE_SHUTDOWN", "TERMINATION_SIGNAL_RECEIVED"}

AlarmHandled == lastOp'.op = "alarm" /\ ~crashed'

\* The receivers that OnAlarmFired found due and called (with data or with
\* PULL_NOT_NEEDED): they were alive when it returned.
ServedDue ==
    {e \in Entries(mReceivers) :
        /\ mReceivers[e[1]][e[2]].nextPullTimeNs <= lastOp'.ts
        /\ receiverState'[mReceivers[e[1]][e[2]].receiver].alive}

CeilDiv(a, b) == (a + b - 1) \div b

\* C23 as stated: a due receiver served by the alarm at time now has its next pull time
\* increased by ceil((now - next) / interval) * interval.
C23_AdvancedByCeiling ==
    [][AlarmHandled =>
          \A e \in ServedDue :
              LET old == mReceivers[e[1]][e[2]]
              IN mReceivers'[e[1]][e[2]].nextPullTimeNs =
                     old.nextPullTimeNs
                         + CeilDiv(lastOp'.ts - old.nextPullTimeNs, old.intervalNs) * old.intervalNs]_vars

\* C23 (amended): a due receiver served by the alarm at time now has its next pull time
\* increased by (floor((now - next) / interval) + 1) * interval: by one interval when
\* now = next, by k + 1 intervals when now - next is k intervals exactly, and by
\* ceil((now - next) / interval) intervals otherwise; the new next pull time is the first
\* one of the receiver's schedule that is after now.
C23_AdvancedPastNow ==
    [][AlarmHandled =>
          \A e \in ServedDue :
              LET old == mReceivers[e[1]][e[2]]
                  d == lastOp'.ts - old.nextPullTimeNs
                  new == mReceivers'[e[1]][e[2]].nextPullTimeNs
              IN /\ new = old.nextPullTimeNs + ((d \div old.intervalNs) + 1) * old.intervalNs
                 /\ new > lastOp'.ts /\ new - old.intervalNs <= lastOp'.ts
                 /\ (d % old.intervalNs # 0 =>
                        new = old.nextPullTimeNs + CeilDiv(d, old.intervalNs) * old.intervalNs)]_vars

\* A receiver due at 60 s with an interval of 60 s was served by the alarm of 120 s, one
\* whole interval late: its next pull is at 180 s.
C23_Witness ==
    /\ lastOp.op = "alarm" /\ lastOp.ts = 24 /\ ~crashed /\ ~lastAlarm.repeat
    /\ Has(mReceivers, "c1") /\ Len(mReceivers["c1"]) = 1
    /\ mReceivers["c1"][1].intervalNs = 12 /\ mReceivers["c1"][1].nextPullTimeNs = 36
    /\ receiverState[mReceivers["c1"][1].receiver].alive
    /\ mReceivers["c1"][1].receiver \in lastAlarm.withData

\* The setPullingAlarm call that asks for an alarm at the next pull time t.
AlarmSetFor(t) == [set |-> TRUE, at |-> t * MillisPerUnit]

NextPullTimesOf(receivers, E) == {receivers[e[1]][e[2]].nextPullTimeNs : e \in E}

CountedByAlarm ==
    {e \in Entries(mReceivers) :
        \/ mReceivers[e[1]][e[2]].nextPullTimeNs > lastOp'.ts
        \/ receiverState'[mReceivers[e[1]][e[2]].receiver].alive}

Registered ==
    {e \in Entries(mReceivers') :
        ~Has(mReceivers, e[1]) \/ e[2] > Len(mReceivers[e[1]])}

C27_ExpiredReceiverNeverCalled ==
    lastOp.op = "alarm" => lastOp.nullDeref = {} /\ ~crashed

\* C25: a pull whose puller returns PULL_DEAD_OBJECT reports failure and removes that puller
\* and no other; a pull whose puller returns another failure reports failure and leaves
\* every puller registered; a pull invokes only a puller that is registered, and fails when
\* it finds none; and a puller becomes registered only by the registration of a callback.
\* So a dead puller is not invoked again until a callback is registered for its key.
C25_DeadPullerEvicted ==
    [][/\ lastOp'.op = "pull" =>
            /\ lastOp'.invoked \in kAllPullAtomInfo \cup {"none"}
            /\ (lastOp'.invoked = "none" => ~lastOp'.ok /\ kAllPullAtomInfo' = kAllPullAtomInfo)
            /\ (lastOp'.invoked # "none" =>
                   /\ lastOp'.ok = (lastOp'.status = "PULL_SUCCESS")
                   /\ kAllPullAtomInfo' =
                          IF lastOp'.status = "PULL_DEAD_OBJECT"
                            THEN kAllPullAtomInfo \ {lastOp'.invoked}
                            ELSE kAllPullAtomInfo)
       /\ lastOp'.op \in {"pull", "alarm", "register"} =>
            kAllPullAtomInfo' \subseteq kAllPullAtomInfo]_vars

\* The puller of u1 returned PULL_DEAD_OBJECT: the pull failed, u1 has no puller any more
\* and the puller of u2 is still registered.
C25_Witness ==
    /\ lastOp = [op |-> "pull", status |-> "PULL_DEAD_OBJECT", ok |-> FALSE, invoked |-> "u1"]
    /\ kAllPullAtomInfo = {"u2"}
    /\ "c1" \in mPullUidProviders

\* The place of a mutex in the acquisition order
\* StateManager -> ConditionWizard -> MetricProducer -> PullManager.
LockRank(mutex) == IF mutex = "PullManager" THEN 4 ELSE 3

\* Thread t is stopped at the acquisition of a mutex that thread u holds.
WaitsFor(t, u) ==
    /\ Programs[t][threadPc[t]].do = "lock"
    /\ Holds(u, Programs[t][threadPc[t]].mutex)

\* C28: no thread acquires a mutex that comes earlier in the acquisition order than one it
\* holds (in particular a producer's mutex while it holds the pull manager's), and the alarm
\* thread and a thread that pulls under a producer's mutex never wait for each other.
C28_LockOrderKept ==
    /\ \A t \in Threads :
           \A i, j \in 1..Len(heldLocks[t]) :
               i < j => LockRank(heldLocks[t][i]) <= LockRank(heldLocks[t][j])
    /\ \A t, u \in Threads : ~(t # u /\ WaitsFor(t, u) /\ WaitsFor(u, t))

\* C29: clampDimensionKeySizeLimit gives 800 for every request below 800 (0 and the
\* negative ones included), the request itself from 800 to 3000 and 3000 for every
\* request above; the hard limit of a count producer is the clamped
\* max_dimensions_per_bucket of its configuration.
C29_HardLimitClamped ==
    /\ \A x \in ClampLimits :
           clampDimensionKeySizeLimit(x) =
               IF x < 800 THEN 800 ELSE IF x > 3000 THEN 3000 ELSE x
    /\ lastOp.op = "construct" =>
           LET x == lastOp.max_dimensions_per_bucket
           IN mDimensionHardLimit = IF x < 800 THEN 800 ELSE IF x > 3000 THEN 3000 ELSE x

C29_Witness ==
    /\ lastOp.op = "construct"
    /\ lastOp.max_dimensions_per_bucket = -1
    /\ mDimensionHardLimit = 800

\* An app-upgrade notification arrives strictly inside the running bucket.
UpgradeInside ==
    /\ lastOp'.op = "upgrade"
    /\ mCurrentBucketStartTimeNs < lastOp'.ts
    /\ lastOp'.ts < getCurrentBucketEndTimeNs(P)

\* The bucket stored for a count that was closed at the notification.
ClosedAt(u, count) ==
    [mBucketStartNs |-> mCurrentBucketStartTimeNs, mBucketEndNs |-> u, mCount |-> count,
     mConditionTrueNs |-> TimerNewBucketStart(mConditionTimer, u, u).trueNs]

UpgradeScenarioDone == run.step = Len(UpgradeScenario) /\ mUploadThreshold = NoThreshold

\* C30 as stated: with the flag the scenario yields three buckets, the third being an empty
\* bucket from 60 s to 120 s; without the flag bucket 0 is not split.
C30_ThreeBucketsReported ==
    UpgradeScenarioDone =>
        IF mSplitBucketForAppUpgrade
          THEN /\ Has(report.data, "x")
               /\ Len(report.data["x"]) = 3
               /\ report.data["x"][1].count = 1 /\ report.data["x"][2].count = 1
               /\ report.data["x"][3].count = 0
          ELSE ReportEntries("x") = <<[bucket |-> 0, count |-> 2]>>

\* The scenario: with the flag the dump at 120 s reports the two partial buckets 0-30 s and
\* 30-60 s with count 1 each and nothing for 60-120 s, which holds no event; without the
\* flag it reports bucket 0 whole, with count 2.
UpgradeScenarioReport ==
    UpgradeScenarioDone =>
        IF mSplitBucketForAppUpgrade
          THEN /\ Has(report.data, "x")
               /\ report.data["x"] =
                      <<[partial |-> TRUE, start |-> 0, end |-> 6, count |-> 1,
                         condition_true_ns |-> -1],
                        [partial |-> TRUE, start |-> 6, end |-> 12, count |-> 1,
                         condition_true_ns |-> -1]>>
          ELSE ReportEntries("x") = <<[bucket |-> 0, count |-> 2]>>

\* The effect of a notification strictly inside the running bucket.
UpgradeSplit ==
    UpgradeInside =>
        IF mSplitBucketForAppUpgrade
          THEN /\ mCurrentBucketStartTimeNs' = lastOp'.ts
               /\ mCurrentBucketNum' = mCurrentBucketNum
               /\ getCurrentBucketEndTimeNs(P)' = getCurrentBucketEndTimeNs(P)
               /\ mCurrentSlicedCounter' = EmptyMap
               /\ \A k \in UpgradeKeys :
                      IF /\ Has(mCurrentSlicedCounter, k)
                         /\ countPassesThreshold(P, mCurrentSlicedCounter[k])
                        THEN /\ Has(mPastBuckets', k)
                             /\ mPastBuckets'[k] =
                                    Append(IF Has(mPastBuckets, k) THEN mPastBuckets[k]
                                           ELSE <<>>,
                                           ClosedAt(lastOp'.ts, mCurrentSlicedCounter[k]))
                             /\ BucketInfo(P, ClosedAt(lastOp'.ts, 0)).partial
                        ELSE /\ Has(mPastBuckets', k) = Has(mPastBuckets, k)
                             /\ Has(mPastBuckets, k) => mPastBuckets'[k] = mPastBuckets[k]
          ELSE UNCHANGED <<cfgVars, prodVars>>

\* C30 (amended): with split_bucket_for_app_upgrade an app-upgrade notification at u strictly
\* inside the running bucket stores, for each key whose count so far passes the upload
\* threshold, the partial bucket [start, u] with that count, and starts a new partial bucket
\* at u with no counts, the same end and the same bucket number; without the flag the
\* notification changes nothing.  In the scenario (bucket 60 s, events at 10 s and 50 s,
\* upgrade at 30 s, dump at 120 s) the report holds the two partial buckets 0-30 s and
\* 30-60 s with count 1 each and no bucket for 60-120 s; without the flag it holds bucket 0
\* with count 2.
C30_UpgradeSplitsBucket == [][UpgradeSplit]_vars /\ []UpgradeScenarioReport

C30_Witness ==
    /\ UpgradeScenarioDone
    /\ mSplitBucketForAppUpgrade
    /\ lastOp = [op |-> "dump", ts |-> 24]
    /\ Has(report.data, "x")
    /\ Len(report.data["x"]) = 2

\* The entries of a history are the last ones noted, oldest first.
MostRecentInOrder(history) ==
    LET list == stats[history]
        kept == IF Noted(history) < MaxCountOf(history) THEN Noted(history)
                ELSE MaxCountOf(history)
    IN /\ Len(list) = kept
       /\ \A i \in 1..Len(list) : list[i] = Noted(history) - kept + i

\* C31: no history of the statistics collector holds more than its maximum count; a note at
\* capacity removes the oldest entry and appends the new one last, so a history holds the
\* most recent entries in arrival order, and a note changes no other history.
C31_HistoriesBounded ==
    /\ \A h \in Histories : Len(stats[h]) <= MaxCountOf(h) /\ MostRecentInOrder(h)
    /\ lastOp.op = "note" =>
           /\ stats[lastOp.history][Len(stats[lastOp.history])] = lastOp.timeSec
           /\ lastOp.timeSec > MaxCountOf(lastOp.history) =>
                  stats[lastOp.history][1] = lastOp.timeSec - MaxCountOf(lastOp.history) + 1

C31_Witness ==
    /\ lastOp = [op |-> "note", history |-> <<"broadcast_sent_time_sec", 0>>,
                 timeSec |-> kMaxTimestampCount + 1]
    /\ Len(stats[<<"broadcast_sent_time_sec", 0>>]) = kMaxTimestampCount
    /\ stats[<<"broadcast_sent_time_sec", 0>>][1] = 2
    /\ Len(stats[<<"system_restart_sec", 0>>]) = kMaxSystemServerRestarts

\* C32: the whole_bucket_count of the notification made for a counted event with key k is
\* the number of counted events of k inside the full bucket the event falls in; events of an
\* earlier full bucket are never included, also when the boundary was crossed by an event
\* exactly at it.
C32_WholeBucketCount ==
    (run.phase = "events" /\ lastAnomalyCheck # NoAnomalyCheck) =>
        lastAnomalyCheck.countWholeBucket =
            Get0(Get0Map(run.ev, lastAnomalyCheck.key), BucketOf(lastAnomalyCheck.eventTimeNs))

\* A matched event is handled: flushIfNeededLocked(ts) runs first, and nothing after it
\* changes the start or the number of the current bucket.
FlushedForEvent == lastOp'.op = "event"
NumBucketsForward == 1 + CDiv(lastOp'.ts - getCurrentBucketEndTimeNs(P), BucketSizeNs)

\* C33 as stated: when ts >= current_bucket_end the start of the current bucket advances by
\* exactly num_buckets_forward * bucket_size, also for a partial bucket.
C33_StartAdvancesByWholeBuckets ==
    [][FlushedForEvent =>
          IF lastOp'.ts < getCurrentBucketEndTimeNs(P)
            THEN UNCHANGED <<mCurrentBucketStartTimeNs, mCurrentBucketNum>>
            ELSE /\ mCurrentBucketNum' = mCurrentBucketNum + NumBucketsForward
                 /\ mCurrentBucketStartTimeNs' =
                        mCurrentBucketStartTimeNs + NumBucketsForward * BucketSizeNs]_vars

\* C33 (amended): flushIfNeededLocked(ts) changes nothing when ts < current_bucket_end;
\* otherwise the bucket number advances by num_buckets_forward and the current bucket
\* starts at current_bucket_end + (num_buckets_forward - 1) * bucket_size, a bucket
\* boundary, whether or not the bucket before was a partial one.
C33_StartMovesToBoundary ==
    [][FlushedForEvent =>
          IF lastOp'.ts < getCurrentBucketEndTimeNs(P)
            THEN UNCHANGED <<mCurrentBucketStartTimeNs, mCurrentBucketNum>>
            ELSE /\ mCurrentBucketNum' = mCurrentBucketNum + NumBucketsForward
                 /\ mCurrentBucketStartTimeNs' =
                        getCurrentBucketEndTimeNs(P) + (NumBucketsForward - 1) * BucketSizeNs
                 /\ mCurrentBucketStartTimeNs' =
                        mTimeBaseNs + mCurrentBucketNum' * BucketSizeNs]_vars

C33_Witness ==
    /\ lastOp = [op |-> "event", ts |-> 24]
    /\ mCurrentBucketStartTimeNs = 24
    /\ mCurrentBucketNum = 2
    /\ \E k \in DOMAIN mPastBuckets : \E i \in 1..Len(mPastBuckets[k]) :
           mPastBuckets[k][i].mBucketStartNs = 6 /\ mPastBuckets[k][i].mBucketEndNs = 12

\* C34 as stated: once the counter map of the current bucket holds more keys than the soft
\* limit the guardrail-hit flag is set for the bucket, whether or not the hard limit has
\* been reached.
C34_FlagPastSoftLimit ==
    CounterSize(P) > kDimensionKeySizeSoftLimit => (mHasHitGuardrail /\ mDimensionGuardrailHit)

\* C34 (amended): the guardrail-hit flag of the current bucket is set exactly when more
\* distinct keys than the hard limit have arrived in the bucket, i.e. when a new key has been
\* rejected; a map that holds more keys than the soft limit and at most the hard limit
\* leaves the flags as they are.
C34_FlagOnlyPastHardLimit ==
    /\ mHasHitGuardrail <=> ArrivedKeys > mDimensionHardLimit
    /\ mHasHitGuardrail => mDimensionGuardrailHit
    /\ mDimensionGuardrailHit => hardLimitReachedCount > 0

\* The map is past the soft limit and filled to the hard limit; nothing was rejected.
C34_Witness ==
    /\ CounterSize(P) > kDimensionKeySizeSoftLimit
    /\ CounterSize(P) = mDimensionHardLimit
    /\ ~mHasHitGuardrail /\ ~mDimensionGuardrailHit /\ hardLimitReachedCount = 0

\* C35: every bucket in the past-bucket store has start < end and end - start <= bucket_size,
\* and the stored buckets of a key do not overlap in time, after any sequence of matched
\* events and dumps, a dump at or before the start of the current bucket included.
C35_StoredBucketsWellFormed ==
    \A k \in DOMAIN mPastBuckets :
        \A i, j \in 1..Len(mPastBuckets[k]) :
            LET a == mPastBuckets[k][i]
                b == mPastBuckets[k][j]
            IN /\ a.mBucketStartNs < a.mBucketEndNs
               /\ a.mBucketEndNs - a.mBucketStartNs <= BucketSizeNs
               /\ i < j => a.mBucketEndNs <= b.mBucketStartNs

\* C36: the on_active_state_changed notifications of a metric alternate, starting from the
\* activity it was constructed with: a call carries the opposite of the is_active flag before
\* the operation, the flag afterwards is the value of the call, and the flag never changes
\* without a call, over activations, deactivations, expiry checks and snapshot loads.
C36_NotificationsAlternate ==
    [][lastOp'.op # "restart" =>
          /\ mIsActive' # mIsActive =>
                 /\ activeStateCalls' # <<>>
                 /\ activeStateCalls'[Len(activeStateCalls')].isActive = mIsActive'
          /\ \A i \in 1..Len(activeStateCalls') :
                 /\ activeStateCalls'[i].isActive # mIsActive
                 /\ activeStateCalls'[i].isActive = mIsActive']_vars

\* C37: when the snapshot was written with a reason other than DEVICE_SHUTDOWN and
\* TERMINATION_SIGNAL_RECEIVED, an activation that was ActiveOnBoot when it was written is
\* not Active after the load, and a metric that the load makes active has another
\* activation that was saved as an active one.
C37_OnBootActivatedOnlyByShutdown ==
    [][(lastOp'.op = "load" /\ snapshot.reason \notin ShutdownReasons) =>
          /\ \A i \in SavedOnBoot : mEventActivationMap'[i].state # "kActive"
          /\ (mIsActive' /\ ~mIsActive) =>
                 \E j \in DOMAIN snapshot.from : snapshot.from[j] = "kActive"]_vars

\* An event of key k reaches the counting step while k has a counter in the current bucket
\* and the bucket stays open.
KnownKeyCounted(k) ==
    /\ lastOp'.op = "event" /\ lastOp'.key = k /\ lastOp'.counted
    /\ Has(mCurrentSlicedCounter, k)
    /\ mCurrentBucketNum' = mCurrentBucketNum

\* C38: an event whose key already has a counter in the current bucket is counted (its
\* counter grows by one and no other counter changes), also when the counter map is at the
\* hard limit and the guardrail was hit in this bucket, and it neither sets a guardrail
\* flag nor reports the hard limit.
C38_KnownKeyAlwaysCounted ==
    [][\A k \in Keys :
          KnownKeyCounted(k) =>
              /\ mCurrentSlicedCounter' = Put(mCurrentSlicedCounter, k, mCurrentSlicedCounter[k] + 1)
              /\ mBulkCounter' = mBulkCounter
              /\ mHasHitGuardrail' = mHasHitGuardrail
              /\ mDimensionGuardrailHit' = mDimensionGuardrailHit
              /\ hardLimitReachedCount' = hardLimitReachedCount]_vars

\* The map is at the hard limit and an event of another key was dropped in this bucket;
\* the last call was an event of a key with a counter, counted as its second.
C38_Witness ==
    /\ lastOp.op = "event" /\ lastOp.counted
    /\ Has(mCurrentSlicedCounter, lastOp.key) /\ mCurrentSlicedCounter[lastOp.key] = 2
    /\ CounterSize(P) = mDimensionHardLimit
    /\ mHasHitGuardrail /\ mDimensionGuardrailHit /\ hardLimitReachedCount = 1
    /\ \E j \in Keys : PassedOf(passed, j) = [n |-> 1, d |-> 1]

\* The start of the bucket slot with the given number.
SlotStart(n) == mTimeBaseNs + n * BucketSizeNs

\* The current bucket starts inside the slot its number names.
BucketInsideItsSlot ==
    /\ SlotStart(mCurrentBucketNum) <= mCurrentBucketStartTimeNs
    /\ mCurrentBucketStartTimeNs < SlotStart(mCurrentBucketNum + 1)

\* The call ran flushIfNeededLocked(ts): a matched event that passed the activation, time
\* base and sampling checks, whatever its condition, or a dump.
RotatedFor(ts) ==
    \/ lastOp'.op = "event" /\ lastOp'.flushed /\ lastOp'.ts = ts
    \/ lastOp'.op = "dump" /\ clock' = ts

C40_RetriggerRestartsTtl ==
    [][\A i \in DOMAIN mEventActivationMap :
          (/\ lastOp'.op = "ACTIVATE_IMMEDIATELY" /\ lastOp'.index = i
           /\ mEventActivationMap[i].state = "kActive") =>
              /\ mEventActivationMap' = [mEventActivationMap EXCEPT ![i].start_ns = clock']
              /\ mEventActivationMap'[i].start_ns + mEventActivationMap'[i].ttl_ns
                     = clock' + mEventActivationMap[i].ttl_ns
              /\ mIsActive => (activeStateCalls' = <<>> /\ mIsActive')]_vars

\* The immediate activation, started at 10 s while the activation on boot was pending, was
\* triggered again at 50 s on the active metric: it now runs from 50 s.
C40_Witness ==
    /\ lastOp.op = "ACTIVATE_IMMEDIATELY" /\ lastOp.wasActive
    /\ lastOp.found.state = "kActive" /\ lastOp.found.start_ns = 2
    /\ clock = 10 /\ mIsActive /\ activeStateCalls = <<>>
    /\ mEventActivationMap[0] = [lastOp.found EXCEPT !.start_ns = 10]
    /\ mEventActivationMap[1].state = "kActiveOnBoot"

====
